---------------------------- MODULE Spec2Model ----------------------------
(***************************************************************************)
(* A model of the QRadar documentation pipeline:                           *)
(*   generate_openapi.py : HTML endpoint pages -> operation records ->     *)
(*                         one OpenAPI document                            *)
(*   generate_sdk.py     : OpenAPI document -> one module per tag, one     *)
(*                         method per operation                            *)
(*                                                                         *)
(* Text is modelled as a sequence of one-character strings, so that        *)
(* strip(), lower(), isdigit(), startswith(), "in" and the regular         *)
(* expressions of _to_snake are computed character by character.           *)
(***************************************************************************)
EXTENDS Integers, Sequences, FiniteSets, TLC

VARIABLES
    pc,          \* which step of the run under study has been taken
    sample,      \* _json_to_schema: the JSON value given
    schema,      \* _json_to_schema: the schema returned
    content,     \* _parse_html_file: the page (heading, tables, <pre> blocks)
    record,      \* _parse_html_file: the dict returned
    param_src,   \* _parse_html_file: for each parameter of the record, the
                 \* index in table['rows'] of the row it was built from
    html_files,  \* build_openapi: the sorted list of pages
    file_idx,    \* build_openapi: number of pages the for loop has consumed
    paths,       \* build_openapi: spec['paths'], in insertion order
    skipped,     \* build_openapi: indices of the pages reported as SKIP
    openapi,     \* generate: the document read from the spec file
    ops_by_tag,  \* generate: the result of _collect_operations
    modules,     \* generate: the tag modules written, in order
    api_dir,     \* generate: the files of the api directory, by module name
    ctor,        \* QRadarSession: the arguments given to the constructor
    session,     \* QRadarSession: the underlying HTTP session (headers, auth)
    call,        \* QRadarSession.request: the arguments of the call in progress
    outgoing,    \* QRadarSession.request: what was handed to the HTTP session
    response,    \* QRadarSession.request: the response of the server
    raised,      \* QRadarSession: the exception the last call ended with
    pg,          \* QRadarSession.paginate: the locals of the generator
    tp,          \* _parse_html_file: the _TableParser instance
    tx,          \* the _TextExtractor instance
    fed          \* what HTMLParser.feed has delivered to the handlers so far

vars == <<pc, sample, schema, content, record, param_src, html_files, file_idx, paths,
          skipped, openapi, ops_by_tag, modules, api_dir, ctor, session, call, outgoing,
          response, raised, pg, tp, tx, fed>>

schemaVars == <<sample, schema>>
parseVars  == <<content, record, param_src>>
buildVars  == <<html_files, file_idx, paths, skipped>>
sdkVars    == <<openapi, ops_by_tag, modules, api_dir>>
httpVars   == <<ctor, session, call, outgoing, response, raised, pg>>
scanVars   == <<tp, tx, fed>>

-----------------------------------------------------------------------------
(* Characters and strings                                                  *)

UpperChars == <<"A","B","C","D","E","F","G","H","I","J","K","L","M",
                "N","O","P","Q","R","S","T","U","V","W","X","Y","Z">>
LowerChars == <<"a","b","c","d","e","f","g","h","i","j","k","l","m",
                "n","o","p","q","r","s","t","u","v","w","x","y","z">>
DigitChars == <<"0","1","2","3","4","5","6","7","8","9">>

Range(s) == {s[i] : i \in DOMAIN s}

IsUpper(c) == c \in Range(UpperChars)
IsLower(c) == c \in Range(LowerChars)
IsDigit(c) == c \in Range(DigitChars)
IsSpace(c) == c \in {" ", "\t", "\n"}

\* str.lower() / str.upper() on one character
LowerCh(c) ==
    IF IsUpper(c)
    THEN LowerChars[CHOOSE i \in DOMAIN UpperChars : UpperChars[i] = c]
    ELSE c

UpperCh(c) ==
    IF IsLower(c)
    THEN UpperChars[CHOOSE i \in DOMAIN LowerChars : LowerChars[i] = c]
    ELSE c

Lower(s) == [i \in DOMAIN s |-> LowerCh(s[i])]
Upper(s) == [i \in DOMAIN s |-> UpperCh(s[i])]

\* s.lstrip(chars), s.rstrip(chars), s.strip(chars)
RECURSIVE LStripSet(_, _)
LStripSet(s, cs) ==
    IF s # <<>> /\ Head(s) \in cs THEN LStripSet(Tail(s), cs) ELSE s

RECURSIVE RStripSet(_, _)
RStripSet(s, cs) ==
    IF s # <<>> /\ s[Len(s)] \in cs
    THEN RStripSet(SubSeq(s, 1, Len(s) - 1), cs)
    ELSE s

StripSet(s, cs) == RStripSet(LStripSet(s, cs), cs)

\* s.strip()
Strip(s) == StripSet(s, {" ", "\t", "\n"})

\* s.startswith(p)
StartsWith(s, p) == Len(s) >= Len(p) /\ SubSeq(s, 1, Len(p)) = p

\* p in s   (substring test)
Contains(s, p) ==
    \E i \in 0..(Len(s) - Len(p)) : SubSeq(s, i + 1, i + Len(p)) = p

\* s.isdigit()
IsDigitStr(s) == s # <<>> /\ \A i \in DOMAIN s : IsDigit(s[i])

\* sep.join(parts)
RECURSIVE Join(_, _)
Join(parts, sep) ==
    IF parts = <<>> THEN <<>>
    ELSE IF Len(parts) = 1 THEN parts[1]
    ELSE parts[1] \o sep \o Join(Tail(parts), sep)

\* s.split(sep) for a one-character separator: always at least one part
RECURSIVE SplitOn(_, _)
SplitOn(s, sep) ==
    IF \A i \in DOMAIN s : s[i] # sep THEN <<s>>
    ELSE LET k == CHOOSE i \in DOMAIN s :
                      s[i] = sep /\ \A j \in 1..(i - 1) : s[j] # sep
         IN  <<SubSeq(s, 1, k - 1)>> \o SplitOn(SubSeq(s, k + 1, Len(s)), sep)

\* [x for x in s if keep(x)] for a set of values to drop
RECURSIVE DropAll(_, _)
DropAll(s, cs) ==
    IF s = <<>> THEN <<>>
    ELSE (IF Head(s) \in cs THEN <<>> ELSE <<Head(s)>>) \o DropAll(Tail(s), cs)

SeqFilterNonEmpty(parts) == DropAll(parts, {<<>>})

-----------------------------------------------------------------------------
(* generate_sdk.py : _to_snake                                             *)

\* keyword.kwlist (Python 3), spelled as character sequences
Keywords == {
    <<"a","n","d">>, <<"a","s">>, <<"a","s","s","e","r","t">>,
    <<"a","s","y","n","c">>, <<"a","w","a","i","t">>,
    <<"b","r","e","a","k">>, <<"c","l","a","s","s">>,
    <<"c","o","n","t","i","n","u","e">>, <<"d","e","f">>, <<"d","e","l">>,
    <<"e","l","i","f">>, <<"e","l","s","e">>, <<"e","x","c","e","p","t">>,
    <<"f","i","n","a","l","l","y">>, <<"f","o","r">>, <<"f","r","o","m">>,
    <<"g","l","o","b","a","l">>, <<"i","f">>, <<"i","m","p","o","r","t">>,
    <<"i","n">>, <<"i","s">>, <<"l","a","m","b","d","a">>,
    <<"n","o","n","l","o","c","a","l">>, <<"n","o","t">>, <<"o","r">>,
    <<"p","a","s","s">>, <<"r","a","i","s","e">>,
    <<"r","e","t","u","r","n">>, <<"t","r","y">>, <<"w","h","i","l","e">>,
    <<"w","i","t","h">>, <<"y","i","e","l","d">>,
    <<"F","a","l","s","e">>, <<"N","o","n","e">>, <<"T","r","u","e">> }

\* re.sub(r'([A-Z]+)([A-Z][a-z])', r'\1_\2', s): an underscore goes before
\* the last capital of a run of two or more capitals that a lower-case
\* letter follows
SnakeAcronym(s) ==
    LET cut(i) == /\ 1 < i /\ i < Len(s)
                  /\ IsUpper(s[i - 1]) /\ IsUpper(s[i]) /\ IsLower(s[i + 1])
        F[i \in 0..Len(s)] ==
            IF i = 0 THEN <<>>
            ELSE F[i - 1] \o (IF cut(i) THEN <<"_", s[i]>> ELSE <<s[i]>>)
    IN  F[Len(s)]

\* re.sub(r'([a-z\d])([A-Z])', r'\1_\2', s)
SnakeCamel(s) ==
    LET cut(i) == /\ 1 < i
                  /\ (IsLower(s[i - 1]) \/ IsDigit(s[i - 1])) /\ IsUpper(s[i])
        F[i \in 0..Len(s)] ==
            IF i = 0 THEN <<>>
            ELSE F[i - 1] \o (IF cut(i) THEN <<"_", s[i]>> ELSE <<s[i]>>)
    IN  F[Len(s)]

\* s.replace('-', '_').replace(' ', '_')
SnakeSeparators(s) ==
    [i \in DOMAIN s |-> IF s[i] \in {"-", " "} THEN "_" ELSE s[i]]

\* re.sub(r'_+', '_', s)
RECURSIVE SqueezeUnderscores(_)
SqueezeUnderscores(s) ==
    IF Len(s) < 2 THEN s
    ELSE IF s[1] = "_" /\ s[2] = "_" THEN SqueezeUnderscores(Tail(s))
    ELSE <<s[1]>> \o SqueezeUnderscores(Tail(s))

ToSnake(name) ==
    LET s1 == SnakeAcronym(name)
        s2 == SnakeCamel(s1)
        s3 == SnakeSeparators(s2)
        s4 == StripSet(Lower(SqueezeUnderscores(s3)), {"_"})
    IN  IF s4 \in Keywords THEN s4 \o <<"_">> ELSE s4

-----------------------------------------------------------------------------
(* generate_openapi.py : _json_to_schema                                   *)
(*                                                                         *)
(* A value returned by json.loads is a record [k, v]: k is the Python      *)
(* class of the value and v its payload (a list is a sequence of values,   *)
(* a dict a function from its keys to values).                             *)

PyBool(b)   == [k |-> "bool", v |-> b]
PyInt(n)    == [k |-> "int", v |-> n]
PyFloat(x)  == [k |-> "float", v |-> x]
PyStr(s)    == [k |-> "str", v |-> s]
PyNone      == [k |-> "NoneType", v |-> "None"]
PyList(xs)  == [k |-> "list", v |-> xs]
PyDict(d)   == [k |-> "dict", v |-> d]

\* the empty dict {}
EmptyDict == [x \in {} |-> x]

\* isinstance(value, cls): bool is a subclass of int
IsInstance(value, cls) ==
    \/ value.k = cls
    \/ value.k = "bool" /\ cls = "int"

\* A plausible slip: the int test placed before the bool test
RECURSIVE JsonToSchemaIntFirst(_)
JsonToSchemaIntFirst(value) ==
    IF IsInstance(value, "int") THEN [type |-> "integer"]
    ELSE IF IsInstance(value, "bool") THEN [type |-> "boolean"]
    ELSE IF IsInstance(value, "float") THEN [type |-> "number"]
    ELSE IF IsInstance(value, "str") THEN [type |-> "string"]
    ELSE IF IsInstance(value, "list") THEN
        IF value.v # <<>>
        THEN [type |-> "array", items |-> JsonToSchemaIntFirst(value.v[1])]
        ELSE [type |-> "array", items |-> EmptyDict]
    ELSE IF IsInstance(value, "dict") THEN
        [type |-> "object",
         properties |-> [key \in DOMAIN value.v |->
                            JsonToSchemaIntFirst(value.v[key])]]
    ELSE EmptyDict

RECURSIVE JsonToSchema(_)
JsonToSchema(value) ==
    IF IsInstance(value, "bool") THEN [type |-> "boolean"]
    ELSE IF IsInstance(value, "int") THEN [type |-> "integer"]
    ELSE IF IsInstance(value, "float") THEN [type |-> "number"]
    ELSE IF IsInstance(value, "str") THEN [type |-> "string"]
    ELSE IF IsInstance(value, "list") THEN
        IF value.v # <<>>
        THEN [type |-> "array", items |-> JsonToSchema(value.v[1])]
        ELSE [type |-> "array", items |-> EmptyDict]
    ELSE IF IsInstance(value, "dict") THEN
        [type |-> "object",
         properties |-> [key \in DOMAIN value.v |-> JsonToSchema(value.v[key])]]
    ELSE EmptyDict

-----------------------------------------------------------------------------
(* The JSON samples the schema inferencer is run on                        *)

MaxDepth == 2

JsonScalars ==
    { PyBool(TRUE), PyInt(1), PyFloat("1.5"), PyStr("a"), PyNone }

\* Lists of up to two elements, dicts of zero, one and three keys
JsonCompound(inner) ==
    {PyList(<<>>)}
    \cup {PyList(<<x>>) : x \in inner}
    \cup {PyList(<<x, y>>) : x \in inner, y \in JsonScalars}
    \cup {PyDict(EmptyDict)}
    \cup {PyDict([key \in {"id"} |-> x]) : x \in inner}
    \cup {PyDict([id |-> y, name |-> PyStr("x"), tags |-> x]) :
              x \in inner, y \in JsonScalars}

RECURSIVE JsonValues(_)
JsonValues(depth) ==
    IF depth = 0 THEN JsonScalars
    ELSE JsonScalars \cup JsonCompound(JsonValues(depth - 1))

-----------------------------------------------------------------------------
(* Values of the variables a run does not use                              *)

IdleSchema == sample = PyNone /\ schema = EmptyDict
IdleParse  == content = <<>> /\ record = EmptyDict /\ param_src = <<>>
IdleBuild  == html_files = <<>> /\ file_idx = 0 /\ paths = <<>> /\ skipped = {}
IdleSdk    == openapi = <<>> /\ ops_by_tag = <<>> /\ modules = <<>> /\ api_dir = <<>>
IdleHttp   == /\ ctor = <<>> /\ session = <<>> /\ call = <<>>
              /\ outgoing = <<>> /\ response = <<>> /\ raised = <<>> /\ pg = <<>>
IdleScan   == tp = <<>> /\ tx = <<>> /\ fed = <<>>

-----------------------------------------------------------------------------
(* Run 1: _json_to_schema applied to one sample                            *)

InitSchema ==
    /\ pc = "input"
    /\ sample \in JsonValues(MaxDepth)
    /\ schema = EmptyDict
    /\ IdleParse /\ IdleBuild /\ IdleSdk
    /\ IdleHttp /\ IdleScan

InferSchema ==
    /\ pc = "input"
    /\ schema' = JsonToSchema(sample)
    /\ pc' = "done"
    /\ UNCHANGED <<sample, parseVars, buildVars, sdkVars>>
    /\ UNCHANGED <<httpVars, scanVars>>

NextSchema == InferSchema

SpecSchema == InitSchema /\ [][NextSchema]_vars

\* The schema the inferencer is documented to return, by the JSON kind of
\* the sample
RECURSIVE RefSchema(_)
RefSchema(value) ==
    CASE value.k = "bool"  -> [type |-> "boolean"]
      [] value.k = "int"   -> [type |-> "integer"]
      [] value.k = "float" -> [type |-> "number"]
      [] value.k = "str"   -> [type |-> "string"]
      [] value.k = "list"  ->
            [type |-> "array",
             items |-> IF Len(value.v) = 0 THEN EmptyDict
                       ELSE RefSchema(Head(value.v))]
      [] value.k = "dict"  ->
            [type |-> "object",
             properties |-> [key \in DOMAIN value.v |-> RefSchema(value.v[key])]]
      [] OTHER -> EmptyDict

\* C4: for every JSON value of bounded depth, _json_to_schema returns the
\* reference schema: booleans give boolean (never integer), integers
\* integer, floats number, strings string, a non-empty list an array whose
\* items is the schema of its first element, the empty list an array with
\* items {}, an object an object with the schema of each value, null {}.
C4_SchemaIsReference ==
    pc = "done" =>
        /\ schema = RefSchema(sample)
        /\ (sample.k = "bool" => schema = [type |-> "boolean"])
        /\ (sample = PyList(<<>>) =>
                schema = [type |-> "array", items |-> EmptyDict])
        /\ (sample.k = "NoneType" => schema = EmptyDict)

\* The round trip of {"id": 1, "name": "x", "tags": ["a"]}
C4_Witness ==
    /\ pc = "done"
    /\ sample = PyDict([id |-> PyInt(1), name |-> PyStr("x"),
                        tags |-> PyList(<<PyStr("a")>>)])
    /\ schema = [type |-> "object",
                 properties |-> [id |-> [type |-> "integer"],
                                 name |-> [type |-> "string"],
                                 tags |-> [type |-> "array",
                                           items |-> [type |-> "string"]]]]

-----------------------------------------------------------------------------
(* generate_openapi.py : _parse_html_file, the page                        *)
(*                                                                         *)
(* A page is a record                                                      *)
(*   headings   : the heading elements in document order, each             *)
(*                [tag, text] (the text that follows the start tag)        *)
(*   shortdesc  : <<raw>>, raw the inner HTML of the first                 *)
(*                <p class="shortdesc">, or <<>> when the page has none    *)
(*   tables     : _TableParser.tables after feed(content): each table      *)
(*                [caption, rows], a row being a sequence of cell texts    *)
(*   pre_blocks : _TextExtractor.pre_blocks after feed(content): each      *)
(*                [json, value], whether json.loads accepts the cleaned    *)
(*                text and the value it returns                            *)

s_GET    == <<"G","E","T">>
s_POST   == <<"P","O","S","T">>
s_PUT    == <<"P","U","T">>
s_DELETE == <<"D","E","L","E","T","E">>
s_PATCH  == <<"P","A","T","C","H">>

\* the alternatives of the title pattern
TitleMethods == {s_GET, s_POST, s_PUT, s_DELETE, s_PATCH}

s_query    == <<"q","u","e","r","y">>
s_path     == <<"p","a","t","h">>
s_header   == <<"h","e","a","d","e","r">>
s_required == <<"r","e","q","u","i","r","e","d">>
s_200      == <<"2","0","0">>
s_201      == <<"2","0","1">>
s_Success  == <<"S","u","c","c","e","s","s">>
s_NoDescription     == <<"N","o"," ","d","e","s","c","r","i","p","t","i","o","n">>
s_application_json  == <<"a","p","p","l","i","c","a","t","i","o","n","/","j","s","o","n">>
s_request_parameter_details == <<"r","e","q","u","e","s","t"," ","p","a","r","a","m","e","t","e","r"," ","d","e","t","a","i","l","s">>
s_request_body_details      == <<"r","e","q","u","e","s","t"," ","b","o","d","y"," ","d","e","t","a","i","l","s">>
s_response_codes            == <<"r","e","s","p","o","n","s","e"," ","c","o","d","e","s">>

\* _TYPE_MAP
TypeMap ==
    { <<<<"s","t","r","i","n","g">>, "string">>, <<<<"n","u","m","b","e","r">>, "number">>,
      <<<<"n","u","m","b","e","r"," ","(","i","n","t","e","g","e","r",")">>, "integer">>, <<<<"i","n","t","e","g","e","r">>, "integer">>,
      <<<<"i","n","t">>, "integer">>, <<<<"l","o","n","g">>, "integer">>,
      <<<<"b","o","o","l","e","a","n">>, "boolean">>, <<<<"b","o","o","l">>, "boolean">>,
      <<<<"a","r","r","a","y">>, "array">>, <<<<"a","r","r","a","y","<","o","b","j","e","c","t",">">>, "array">>,
      <<<<"o","b","j","e","c","t">>, "object">> }

\* _map_type
MapType(raw) ==
    IF \E e \in TypeMap : e[1] = Lower(raw)
    THEN (CHOOSE e \in TypeMap : e[1] = Lower(raw))[2]
    ELSE "string"

\* The title pattern r'\s*(GET|POST|PUT|DELETE|PATCH)\s+(/[^\s<]+)' applied
\* to the text after an <h1 ...> start tag, ignoring case: the groups
\* <<method, path>> or <<>> when the text does not match
RECURSIVE TakeWhileNot(_, _)
TakeWhileNot(s, stop) ==
    IF s = <<>> \/ Head(s) \in stop THEN <<>>
    ELSE <<Head(s)>> \o TakeWhileNot(Tail(s), stop)

TitleGroups(text) ==
    LET ws    == {" ", "\t", "\n"}
        t     == LStripSet(text, ws)
        verb  == TakeWhileNot(t, ws)
        rest  == SubSeq(t, Len(verb) + 1, Len(t))
        r     == LStripSet(rest, ws)
        tail  == IF r = <<>> THEN <<>> ELSE TakeWhileNot(Tail(r), ws \cup {"<"})
    IN  IF /\ Upper(verb) \in TitleMethods
           /\ Len(rest) > Len(r)
           /\ r # <<>> /\ Head(r) = "/"
           /\ tail # <<>>
        THEN <<verb, <<"/">> \o tail>>
        ELSE <<>>

\* re.search over the page: the first <h1> whose text matches
RECURSIVE TitleSearch(_)
TitleSearch(headings) ==
    IF headings = <<>> THEN <<>>
    ELSE IF Lower(Head(headings).tag) = <<"h","1">>
            /\ TitleGroups(Head(headings).text) # <<>>
         THEN TitleGroups(Head(headings).text)
         ELSE TitleSearch(Tail(headings))

\* re.sub(r'<[^>]+>', '', raw)
RECURSIVE StripTags(_)
StripTags(raw) ==
    IF raw = <<>> THEN <<>>
    ELSE IF Head(raw) = "<"
         THEN LET inner == TakeWhileNot(Tail(raw), {">"})
              IN  IF inner # <<>> /\ Len(inner) + 1 < Len(raw)
                  THEN StripTags(SubSeq(raw, Len(inner) + 3, Len(raw)))
                  ELSE <<"<">> \o StripTags(Tail(raw))
         ELSE <<Head(raw)>> \o StripTags(Tail(raw))

\* the short description (pages here carry no character entities, on which
\* html.unescape changes nothing)
ShortDescription(page) ==
    IF page.shortdesc = <<>> THEN <<>>
    ELSE Strip(StripTags(page.shortdesc[1]))

\* A plausible slip: the header row kept
KeepHeaderRow(rows) == rows

\* rows[1:] if rows else []
SkipHeaderRow(rows) == IF rows # <<>> THEN Tail(rows) ELSE <<>>

\* The rows a table hands to the record builders, each with the index it
\* has in table['rows'] (the index is bookkeeping of the model: it tells
\* which row a parameter was built from)
DataRows(rows) ==
    LET kept == SkipHeaderRow(rows)
        off  == Len(rows) - Len(kept)
    IN  [i \in DOMAIN kept |-> [cells |-> kept[i], at |-> i + off]]

\* The loop over tp.tables: the rows of the last table whose caption
\* contains the needle; <<>> when there is none
RECURSIVE RowsOfCaption(_, _, _)
RowsOfCaption(tables, kind, acc) ==
    IF tables = <<>> THEN acc
    ELSE LET cap  == Lower(Head(tables).caption)
             what == IF Contains(cap, s_request_parameter_details) THEN "params"
                     ELSE IF Contains(cap, s_request_body_details) THEN "body"
                     ELSE IF Contains(cap, s_response_codes) THEN "responses"
                     ELSE "none"
         IN  RowsOfCaption(Tail(tables), kind,
                 IF what = kind THEN DataRows(Head(tables).rows) ELSE acc)

-----------------------------------------------------------------------------
(* generate_openapi.py : _parse_html_file, the record builders             *)

ParamLocations == {s_query, s_path, s_header}

\* A plausible slip: path parameters take their optionality from the table
ParamRequiredFromCellOnly(optionality, location) ==
    Lower(Strip(optionality)) = s_required

\* required or location == 'path'
ParamRequired(optionality, location) ==
    \/ Lower(Strip(optionality)) = s_required
    \/ location = s_path

\* The rows of the parameter table that yield a parameter
RECURSIVE SelectParamRows(_)
SelectParamRows(rows) ==
    IF rows = <<>> THEN <<>>
    ELSE LET row == Head(rows)
             use == /\ Len(row.cells) >= 6
                    /\ Lower(Strip(row.cells[2])) \in ParamLocations
         IN  (IF use THEN <<row>> ELSE <<>>) \o SelectParamRows(Tail(rows))

\* The param dict built from one row
ParamOfRow(cells) ==
    LET location == Lower(Strip(cells[2]))
    IN  [ name        |-> Strip(cells[1]),
          in          |-> location,
          description |-> Strip(cells[6]),
          required    |-> ParamRequired(cells[3], location),
          schema      |-> [type |-> MapType(Strip(cells[4]))] ]

BuildParameters(params_rows) ==
    LET sel == SelectParamRows(params_rows)
    IN  [i \in DOMAIN sel |-> ParamOfRow(sel[i].cells)]

\* For each parameter, the index in table['rows'] of the row it came from
ParameterSources(params_rows) ==
    LET sel == SelectParamRows(params_rows)
    IN  [i \in DOMAIN sel |-> sel[i].at]

\* The body rows that define a field: at least 4 cells and a name
RECURSIVE SelectBodyRows(_)
SelectBodyRows(rows) ==
    IF rows = <<>> THEN <<>>
    ELSE LET row == Head(rows)
             use == Len(row.cells) >= 4 /\ Strip(row.cells[1]) # <<>>
         IN  (IF use THEN <<row>> ELSE <<>>) \o SelectBodyRows(Tail(rows))

BodyFieldRequired(b_desc) ==
    /\ Contains(Lower(b_desc), s_required)
    /\ StartsWith(Lower(Strip(b_desc)), s_required)

\* properties: a later row of the same name replaces the earlier one
RECURSIVE BodyProperties(_)
BodyProperties(sel) ==
    IF sel = <<>> THEN EmptyDict
    ELSE LET row  == sel[Len(sel)].cells
             prop == [ type        |-> MapType(Strip(row[2])),
                       description |-> Strip(row[4]) ]
         IN  (Strip(row[1]) :> prop) @@ BodyProperties(SubSeq(sel, 1, Len(sel) - 1))

RECURSIVE BodyRequiredFields(_)
BodyRequiredFields(sel) ==
    IF sel = <<>> THEN <<>>
    ELSE (IF BodyFieldRequired(Head(sel).cells[4])
          THEN <<Strip(Head(sel).cells[1])>> ELSE <<>>)
         \o BodyRequiredFields(Tail(sel))

\* content_types[0] if content_types else 'application/json'
RECURSIVE BodyContentTypes(_)
BodyContentTypes(rows) ==
    IF rows = <<>> THEN <<>>
    ELSE (IF Len(Head(rows).cells) > 2
          THEN <<Strip(Head(rows).cells[3])>> ELSE <<>>)
         \o BodyContentTypes(Tail(rows))

BodyMime(body_rows) ==
    LET content_types == BodyContentTypes(body_rows)
    IN  IF content_types # <<>> THEN content_types[1] ELSE s_application_json

BuildRequestBody(body_rows) ==
    IF body_rows = <<>> THEN PyNone
    ELSE LET sel      == SelectBodyRows(body_rows)
             props    == BodyProperties(sel)
             required == BodyRequiredFields(sel)
             body_schema ==
                 IF required # <<>>
                 THEN [type |-> "object", properties |-> props,
                       required |-> required]
                 ELSE [type |-> "object", properties |-> props]
         IN  [ required |-> TRUE,
               content  |-> (BodyMime(body_rows) :> [schema |-> body_schema]) ]

\* A plausible slip: a blank 3rd cell falls back to the 2nd cell
ResponseDescriptionFallsBack(cells) ==
    IF Len(cells) > 2 /\ Strip(cells[3]) # <<>> THEN Strip(cells[3])
    ELSE IF Len(cells) > 1 /\ Strip(cells[2]) # <<>> THEN Strip(cells[2])
    ELSE s_NoDescription

\* The description of one response row
ResponseDescription(cells) ==
    LET desc_text == IF Len(cells) > 2 THEN Strip(cells[3])
                     ELSE IF Len(cells) > 1 THEN Strip(cells[2])
                     ELSE <<>>
    IN  IF desc_text # <<>> THEN desc_text ELSE s_NoDescription

\* The for loop over response_rows: a later row of the same code replaces
\* the earlier one
RECURSIVE ResponsesOfRows(_)
ResponsesOfRows(rows) ==
    IF rows = <<>> THEN EmptyDict
    ELSE LET cells == rows[Len(rows)].cells
             rest  == ResponsesOfRows(SubSeq(rows, 1, Len(rows) - 1))
         IN  IF cells = <<>> \/ ~IsDigitStr(Strip(cells[1])) THEN rest
             ELSE (Strip(cells[1]) :> [description |-> ResponseDescription(cells)])
                  @@ rest

\* A plausible slip: no response synthesised when the table gives none
BuildResponsesNoDefault(response_rows) == ResponsesOfRows(response_rows)

BuildResponses(response_rows) ==
    LET responses == ResponsesOfRows(response_rows)
    IN  IF responses = EmptyDict
        THEN (s_200 :> [description |-> s_Success])
        ELSE responses

\* The first <pre> block json.loads accepts; PyNone when there is none (or
\* when that block is the JSON text null)
RECURSIVE ResponseSample(_)
ResponseSample(pre_blocks) ==
    IF pre_blocks = <<>> THEN PyNone
    ELSE IF Head(pre_blocks).json THEN Head(pre_blocks).value
    ELSE ResponseSample(Tail(pre_blocks))

\* A plausible slip: the schema always goes to 200
OkCodeAlways200(method, responses) == s_200

\* '201' if method == 'POST' and '201' in responses else '200'
OkCode(method, responses) ==
    IF method = s_POST /\ s_201 \in DOMAIN responses THEN s_201 ELSE s_200

\* A plausible slip: every response gets the content
AttachSchemaToAll(method, responses, response_sample) ==
    [code \in DOMAIN responses |->
        [ description |-> responses[code].description,
          content     |-> (s_application_json :> [schema |-> [type |-> "object"]]) ]]

\* responses[ok_code]['content'] = {'application/json': {'schema': ...}}
AttachSchema(method, responses, response_sample) ==
    LET ok_code    == OkCode(method, responses)
        ok_schema  == IF response_sample # PyNone
                      THEN JsonToSchema(response_sample)
                      ELSE [type |-> "object"]
    IN  IF ok_code \in DOMAIN responses
        THEN [responses EXCEPT ![ok_code] =
                 [ description |-> @.description,
                   content     |-> (s_application_json :> [schema |-> ok_schema]) ]]
        ELSE responses

\* _parse_html_file: the record of a page, {} when no title is found
ParseHtmlFile(page) ==
    LET title_m == TitleSearch(page.headings)
    IN  IF title_m = <<>> THEN EmptyDict
        ELSE LET method      == Upper(title_m[1])
                 description == ShortDescription(page)
                 responses   ==
                     BuildResponses(RowsOfCaption(page.tables, "responses", <<>>))
             IN  [ method       |-> method,
                   api_path     |-> Strip(title_m[2]),
                   summary      |-> description,
                   description  |-> description,
                   parameters   |->
                       BuildParameters(RowsOfCaption(page.tables, "params", <<>>)),
                   request_body |->
                       BuildRequestBody(RowsOfCaption(page.tables, "body", <<>>)),
                   responses    |->
                       AttachSchema(method, responses,
                                    ResponseSample(page.pre_blocks)) ]

\* The rows the parameters of ParseHtmlFile(page) came from
ParseSources(page) ==
    IF TitleSearch(page.headings) = <<>> THEN <<>>
    ELSE ParameterSources(RowsOfCaption(page.tables, "params", <<>>))

-----------------------------------------------------------------------------
(* The pages _parse_html_file is run on                                    *)

MaxRows == 3

\* All sequences over a set of length 0..n
SeqsUpTo(S, n) == UNION { [1..k -> S] : k \in 0..n }

Heading(tag, text) == [tag |-> tag, text |-> text]
Table(caption, rows) == [caption |-> caption, rows |-> rows]
Page(headings, shortdesc, tables, pre_blocks) ==
    [ headings |-> headings, shortdesc |-> shortdesc,
      tables |-> tables, pre_blocks |-> pre_blocks ]

PreNotJson   == [json |-> FALSE, value |-> PyNone]
PreJson(val) == [json |-> TRUE, value |-> val]

c_ParamCaption == <<"T","a","b","l","e"," ","1","."," ","R","e","q","u","e","s","t"," ","P","a","r","a","m","e","t","e","r"," ","D","e","t","a","i","l","s">>
c_BodyCaption  == <<"T","a","b","l","e"," ","2","."," ","R","e","q","u","e","s","t"," ","B","o","d","y"," ","D","e","t","a","i","l","s">>
c_RespCaption  == <<"T","a","b","l","e"," ","3","."," ","R","e","s","p","o","n","s","e"," ","C","o","d","e","s">>
c_OtherCaption == <<"T","a","b","l","e"," ","4","."," ","R","e","s","p","o","n","s","e"," ","D","e","s","c","r","i","p","t","i","o","n">>

ParamHeaderRow ==
    << <<"P","a","r","a","m","e","t","e","r">>, <<"T","y","p","e">>, <<"O","p","t","i","o","n","a","l","i","t","y">>, <<"D","a","t","a"," ","T","y","p","e">>, <<"M","I","M","E"," ","T","y","p","e">>,
       <<"D","e","s","c","r","i","p","t","i","o","n">> >>

ParamRow(name, location, optionality, data_type) ==
    << name, location, optionality, data_type, <<"t","e","x","t","/","p","l","a","i","n">>, <<"d">> >>

\* Rows of a parameter table: the locations and optionalities for the name
\* id, a second spelling of the name, the usual header row and a row that
\* is too short
ParamRows ==
    { ParamRow(<<"i","d">>, <<"P","a","t","h">>, o, <<"S","t","r","i","n","g">>) :
        o \in {<<"R","e","q","u","i","r","e","d">>, <<"O","p","t","i","o","n","a","l">>} }
    \cup
    { ParamRow(<<"i","d">>, <<"q","u","e","r","y">>, o, <<"S","t","r","i","n","g">>) :
        o \in {<<"R","e","q","u","i","r","e","d">>, <<"O","p","t","i","o","n","a","l">>, <<"N","o","t"," ","r","e","q","u","i","r","e","d">>} }
    \cup { ParamRow(<<"i","d">>, <<"b","o","d","y">>, <<"R","e","q","u","i","r","e","d">>, <<"S","t","r","i","n","g">>),
           ParamRow(<<"I","d">>, <<"q","u","e","r","y">>, <<"O","p","t","i","o","n","a","l">>, <<"N","u","m","b","e","r"," ","(","I","n","t","e","g","e","r",")">>),
           ParamHeaderRow,
           << <<"i","d">>, <<"q","u","e","r","y">>, <<"R","e","q","u","i","r","e","d">> >> }

ParamPages ==
    { Page(<<Heading(<<"h","1">>, <<"G","E","T"," ","/","a","/","{","i","d","}">>)>>, <<<<"<","b",">","G","e","t","<","/","b",">"," ","o","n","e">>>>,
           <<Table(c_ParamCaption, rows)>>, <<>>) :
        rows \in SeqsUpTo(ParamRows, MaxRows) }
    \cup
    { Page(<<Heading(<<"h","1">>, <<"G","E","T"," ","/","a","/","{","i","d","}">>)>>, <<>>,
           <<Table(c_ParamCaption, <<r1, r2>>), Table(cap, <<r3, r4>>)>>, <<>>) :
        r1 \in {ParamHeaderRow},
        r2 \in {ParamRow(<<"i","d">>, <<"P","a","t","h">>, <<"N","o","t"," ","r","e","q","u","i","r","e","d">>, <<"S","t","r","i","n","g">>)},
        r3 \in {ParamRow(<<"I","d">>, <<"q","u","e","r","y">>, <<"O","p","t","i","o","n","a","l">>, <<"N","u","m","b","e","r"," ","(","I","n","t","e","g","e","r",")">>)},
        r4 \in {ParamRow(<<"i","d">>, <<"h","e","a","d","e","r">>, <<"R","e","q","u","i","r","e","d">>, <<"S","t","r","i","n","g">>)},
        cap \in {c_ParamCaption, c_OtherCaption, <<"R","E","Q","U","E","S","T"," ","P","A","R","A","M","E","T","E","R"," ","D","E","T","A","I","L","S">>} }

RespHeaderRow == << <<"H","T","T","P"," ","R","e","s","p","o","n","s","e"," ","C","o","d","e">>, <<"U","n","i","q","u","e"," ","C","o","d","e">>, <<"D","e","s","c","r","i","p","t","i","o","n">> >>

RespRows ==
    { RespHeaderRow,
      << <<"2","0","0">>, <<>>, <<"o","k">> >>,
      << <<"2","0","1">>, <<>>, <<"c","r","e","a","t","e","d">> >>,
      << <<"4","0","4">>, <<"1","0","0","2">>, <<>> >>,
      << <<"O","K">>, <<>>, <<"f","i","n","e">> >> }

\* Rows of fewer than three cells
ShortRespRows ==
    { << <<"5","0","0">>, <<"e","r","r">> >>,
      << <<"2","0","4">> >> }

PreBlockLists ==
    { <<>>,
      <<PreNotJson, PreJson(PyDict([key \in {"id"} |-> PyInt(1)])),
        PreJson(PyList(<<>>))>> }

OtherPreBlockLists ==
    { <<PreNotJson>>,
      <<PreJson(PyNone), PreJson(PyList(<<PyStr("x")>>))>> }

RespPages ==
    { Page(<<Heading(<<"h","1">>, text)>>, <<>>,
           <<Table(c_RespCaption, rows)>>, pre_blocks) :
        text \in {<<"G","E","T"," ","/","a">>, <<"p","o","s","t"," ","/","a">>},
        rows \in SeqsUpTo(RespRows, MaxRows),
        pre_blocks \in PreBlockLists }
    \cup
    { Page(<<Heading(<<"h","1">>, text)>>, <<>>,
           <<Table(c_RespCaption, <<RespHeaderRow>> \o rows)>>, pre_blocks) :
        text \in {<<"G","E","T"," ","/","a">>, <<"p","o","s","t"," ","/","a">>},
        rows \in SeqsUpTo(RespRows \cup ShortRespRows, 1),
        pre_blocks \in PreBlockLists \cup OtherPreBlockLists }

BodyHeaderRow == << <<"F","i","e","l","d">>, <<"D","a","t","a"," ","T","y","p","e">>, <<"M","I","M","E"," ","T","y","p","e">>, <<"D","e","s","c","r","i","p","t","i","o","n">> >>

BodyRows ==
    { BodyHeaderRow,
      << <<"n","a","m","e">>, <<"S","t","r","i","n","g">>, <<"t","e","x","t","/","p","l","a","i","n">>, <<"R","e","q","u","i","r","e","d"," ","-"," ","t","h","e"," ","n","a","m","e">> >>,
      << <<"a","g","e">>, <<"N","u","m","b","e","r"," ","(","I","n","t","e","g","e","r",")">>, <<>>, <<"n","o","t"," ","r","e","q","u","i","r","e","d">> >>,
      << <<"n","a","m","e">>, <<"O","b","j","e","c","t">>, <<>> >>,
      << <<>>, <<"S","t","r","i","n","g">>, <<"a","p","p","l","i","c","a","t","i","o","n","/","j","s","o","n">>, <<"r","e","q","u","i","r","e","d">> >> }

BodyPages ==
    { Page(<<Heading(<<"h","1">>, <<"P","U","T"," ","/","a">>)>>, <<>>,
           <<Table(c_BodyCaption, rows)>>, <<>>) :
        rows \in SeqsUpTo(BodyRows, MaxRows) }

\* Pages whose title is not found, and titles in unusual spellings
TitleTexts ==
    { <<"G","E","T"," ","/","a">>, <<" ","g","e","t"," "," ","/","a","/","b","<">>, <<"D","e","l","e","t","e"," ","/","a">>, <<"P","A","T","C","H"," ","/","{","i","d","}">>,
      <<"G","E","T">>, <<"G","E","T"," ","/">>, <<"G","E","T"," ","a">>, <<"H","E","A","D"," ","/","a">>, <<"G","E","T","S"," ","/","a">>, <<"<","b",">","G","E","T"," ","/","a","<","/","b",">">>,
      <<"O","f","f","e","n","s","e","s">> }

TitlePages ==
    { Page(<<Heading(tag, text)>>, <<>>, <<>>, <<>>) :
        tag \in {<<"h","1">>, <<"H","1">>, <<"h","2">>}, text \in TitleTexts }
    \cup
    { Page(<<Heading(<<"h","1">>, <<"O","f","f","e","n","s","e","s">>), Heading(<<"h","2">>, <<"P","U","T"," ","/","b">>),
             Heading(<<"h","1">>, <<"P","O","S","T"," ","/","a">>), Heading(<<"h","1">>, <<"G","E","T"," ","/","c">>)>>,
           <<>>, <<>>, <<>>),
      Page(<<>>, <<>>, <<Table(c_RespCaption, <<RespHeaderRow>>)>>, <<>>) }

ParsePages == ParamPages \cup RespPages \cup BodyPages \cup TitlePages

-----------------------------------------------------------------------------
(* Run 2: _parse_html_file applied to one page                             *)

InitParse ==
    /\ pc = "input"
    /\ content \in ParsePages
    /\ record = EmptyDict
    /\ param_src = <<>>
    /\ IdleSchema /\ IdleBuild /\ IdleSdk
    /\ IdleHttp /\ IdleScan

ParseFile ==
    /\ pc = "input"
    /\ record' = ParseHtmlFile(content)
    /\ param_src' = ParseSources(content)
    /\ pc' = "done"
    /\ UNCHANGED <<content, schemaVars, buildVars, sdkVars>>
    /\ UNCHANGED <<httpVars, scanVars>>

NextParse == ParseFile

SpecParse == InitParse /\ [][NextParse]_vars

-----------------------------------------------------------------------------
(* Properties of _parse_html_file                                          *)

\* The tables of the page of a given kind, by their caption
ParamTablesOf(page) ==
    { i \in DOMAIN page.tables :
        Contains(Lower(page.tables[i].caption), s_request_parameter_details) }

RespTablesOf(page) ==
    { i \in DOMAIN page.tables :
        /\ Contains(Lower(page.tables[i].caption), s_response_codes)
        /\ ~Contains(Lower(page.tables[i].caption), s_request_parameter_details)
        /\ ~Contains(Lower(page.tables[i].caption), s_request_body_details) }

\* The parameter table the record is built from: the last one of the page
LastParamTable(page) ==
    page.tables[CHOOSE i \in ParamTablesOf(page) :
                    \A j \in ParamTablesOf(page) : j <= i]

Parsed == pc = "done" /\ record # EmptyDict

\* C2: the first row of a table captioned "request parameter details" is a
\* header: no parameter of the record is built from it, whatever it holds;
\* the record has at most one parameter per remaining row, and none when
\* the page has no such table.
C2_HeaderRowExcluded ==
    Parsed =>
        /\ Len(param_src) = Len(record.parameters)
        /\ \A i \in DOMAIN param_src : param_src[i] # 1
        /\ ParamTablesOf(content) = {} => record.parameters = <<>>
        /\ ParamTablesOf(content) # {} =>
              /\ Len(record.parameters) < Len(LastParamTable(content).rows)
                 \/ LastParamTable(content).rows = <<>>
              /\ \A i \in DOMAIN param_src :
                    /\ param_src[i] \in 2..Len(LastParamTable(content).rows)
                    /\ record.parameters[i].name =
                          LastParamTable(content).rows[param_src[i]][1]

\* A first row with six cells and a valid location, and parameters built
\* from the rows under it
C2_Witness ==
    /\ Parsed
    /\ ParamTablesOf(content) # {}
    /\ Len(LastParamTable(content).rows) >= 2
    /\ LastParamTable(content).rows[1] =
           ParamRow(<<"i","d">>, <<"q","u","e","r","y">>,
                    <<"R","e","q","u","i","r","e","d">>,
                    <<"S","t","r","i","n","g">>)
    /\ Len(record.parameters) = Len(LastParamTable(content).rows) - 1

\* C3: a path parameter is always required; a query or header parameter is
\* required exactly when its optionality cell, trimmed and lower-cased, is
\* "required".
C3_PathParamsRequired ==
    Parsed =>
        \A i \in DOMAIN record.parameters :
            LET p     == record.parameters[i]
                cells == LastParamTable(content).rows[param_src[i]]
                says  == Lower(Strip(cells[3])) = s_required
            IN  /\ p.in \in ParamLocations
                /\ p.in = s_path => p.required
                /\ p.in # s_path => (p.required <=> says)

\* A path parameter marked Optional, a query parameter marked Required and
\* one marked "Not required"
C3_Witness ==
    /\ Parsed
    /\ Len(record.parameters) = 2
    /\ record.parameters[1].in = s_path
    /\ LastParamTable(content).rows[param_src[1]][3] =
           <<"O","p","t","i","o","n","a","l">>
    /\ record.parameters[1].required
    /\ record.parameters[2].in = s_query
    /\ LastParamTable(content).rows[param_src[2]][3] =
           <<"N","o","t"," ","r","e","q","u","i","r","e","d">>
    /\ ~record.parameters[2].required

\* The page gives no response row with a numeric first cell: no response
\* table, or only rows (after the header) whose first cell is not a number
NoNumericResponseRow(page) ==
    \A t \in RespTablesOf(page) :
        \A i \in 2..Len(page.tables[t].rows) :
            ~IsDigitStr(page.tables[t].rows[i][1])

\* The schema step 8 attaches: that of the first parseable sample, or the
\* bare object
ExpectedOkSchema(page) ==
    IF \E i \in DOMAIN page.pre_blocks :
          /\ page.pre_blocks[i].json
          /\ \A j \in 1..(i - 1) : ~page.pre_blocks[j].json
          /\ page.pre_blocks[i].value # PyNone
    THEN RefSchema((page.pre_blocks[CHOOSE i \in DOMAIN page.pre_blocks :
                        /\ page.pre_blocks[i].json
                        /\ \A j \in 1..(i - 1) : ~page.pre_blocks[j].json]).value)
    ELSE [type |-> "object"]

\* C7 as stated: with no numeric response row the response map of the
\* returned record is exactly {"200": {"description": "Success"}}.
C7_DefaultResponseExactly ==
    (Parsed /\ NoNumericResponseRow(content)) =>
        record.responses = (s_200 :> [description |-> s_Success])

\* C7 as amended: with no numeric response row the response map of the
\* returned record has the single code "200", described "Success", and
\* that response carries the application/json schema of the sample (the
\* bare object when the page has no JSON sample).
C7_DefaultResponseWithSchema ==
    (Parsed /\ NoNumericResponseRow(content)) =>
        /\ DOMAIN record.responses = {s_200}
        /\ record.responses[s_200] =
              [ description |-> s_Success,
                content |-> (s_application_json :>
                                [schema |-> ExpectedOkSchema(content)]) ]

\* A response table whose only data row has a non-numeric first cell
C7_Witness ==
    /\ Parsed
    /\ RespTablesOf(content) # {}
    /\ \E t \in RespTablesOf(content) :
          /\ Len(content.tables[t].rows) = 2
          /\ content.tables[t].rows[2][1] = <<"O","K">>
    /\ NoNumericResponseRow(content)
    /\ DOMAIN record.responses = {s_200}

\* C8: for a POST whose response map has both 200 and 201, the schema is
\* attached to 201 and 200 carries no content.
C8_PostSchemaOn201 ==
    (Parsed /\ record.method = s_POST
            /\ {s_200, s_201} \subseteq DOMAIN record.responses) =>
        /\ "content" \in DOMAIN record.responses[s_201]
        /\ record.responses[s_201].content =
              (s_application_json :> [schema |-> ExpectedOkSchema(content)])
        /\ "content" \notin DOMAIN record.responses[s_200]

C8_Witness ==
    /\ Parsed
    /\ record.method = s_POST
    /\ {s_200, s_201} \subseteq DOMAIN record.responses
    /\ record.responses[s_201].content =
          (s_application_json :>
              [schema |-> [type |-> "object",
                           properties |-> [key \in {"id"} |-> [type |-> "integer"]]]])

\* C10 (operation record): no two parameters of an operation record have
\* the same snake_cased name.
C10_ParameterNamesDistinct ==
    Parsed =>
        \A i, j \in DOMAIN record.parameters :
            i # j => ToSnake(record.parameters[i].name)
                        # ToSnake(record.parameters[j].name)

-----------------------------------------------------------------------------
(* generate_openapi.py : build_openapi                                     *)
(*                                                                         *)
(* spec['paths'] is a sequence of entries [path, ops] in insertion order,  *)
(* ops the dict of the path: a function from the lower-case method to the  *)
(* operation object.                                                       *)

\* _serialize_response
SerializeResponse(resp) ==
    IF "content" \in DOMAIN resp
    THEN [ description |-> IF "description" \in DOMAIN resp
                           THEN resp.description ELSE s_NoDescription,
           content |-> resp.content ]
    ELSE [ description |-> IF "description" \in DOMAIN resp
                           THEN resp.description ELSE s_NoDescription ]

\* api_path.strip('/').split('/')
PathParts(api_path) == SplitOn(StripSet(api_path, {"/"}), "/")

\* _make_operation_id
MakeOperationId(method, api_path) ==
    LET parts  == [i \in DOMAIN PathParts(api_path) |->
                      StripSet(PathParts(api_path)[i], {"{", "}"})]
        cap(s) == IF s # <<>> THEN <<UpperCh(s[1])>> \o Tail(s) ELSE <<>>
        F[i \in 0..Len(parts)] ==
            IF i = 0 THEN method ELSE F[i - 1] \o cap(parts[i])
    IN  F[Len(parts)]

\* _extract_tag
ExtractTag(api_path) == PathParts(api_path)[1]

\* The operation object built from a record
OperationOf(data) ==
    LET method == Lower(data.method)
        base   == [ summary     |-> data.summary,
                    description |-> data.description,
                    operationId |-> MakeOperationId(method, data.api_path),
                    tags        |-> <<ExtractTag(data.api_path)>>,
                    responses   |-> [code \in DOMAIN data.responses |->
                                        SerializeResponse(data.responses[code])] ]
        with_params == IF data.parameters # <<>>
                       THEN ("parameters" :> data.parameters) @@ base
                       ELSE base
    IN  IF data.request_body # PyNone
        THEN ("requestBody" :> data.request_body) @@ with_params
        ELSE with_params

\* Index of a path in spec['paths'], 0 when absent
PathIndex(entries, api_path) ==
    IF \E i \in DOMAIN entries : entries[i].path = api_path
    THEN CHOOSE i \in DOMAIN entries : entries[i].path = api_path
    ELSE 0

\* A plausible slip: an operation already stored under the path and method
\* is kept
PutOperationKeepFirst(entries, api_path, method, operation) ==
    LET with_path == IF \E i \in DOMAIN entries : entries[i].path = api_path
                     THEN entries
                     ELSE Append(entries, [path |-> api_path, ops |-> EmptyDict])
        at        == CHOOSE i \in DOMAIN with_path : with_path[i].path = api_path
    IN  [with_path EXCEPT ![at].ops = @ @@ (method :> operation)]

\* A plausible slip: the path item is taken out and put back at the end
PutOperationMovesPath(entries, api_path, method, operation) ==
    LET old_ops == IF \E i \in DOMAIN entries : entries[i].path = api_path
                   THEN entries[CHOOSE i \in DOMAIN entries :
                                    entries[i].path = api_path].ops
                   ELSE EmptyDict
        others  == SelectSeq(entries, LAMBDA e : e.path # api_path)
    IN  Append(others, [path |-> api_path,
                        ops  |-> (method :> operation) @@ old_ops])

\* spec['paths'].setdefault(api_path, {})[method] = operation
PutOperation(entries, api_path, method, operation) ==
    LET with_path == IF PathIndex(entries, api_path) = 0
                     THEN Append(entries, [path |-> api_path, ops |-> EmptyDict])
                     ELSE entries
        at        == PathIndex(with_path, api_path)
    IN  [with_path EXCEPT ![at].ops = (method :> operation) @@ @]

\* The pages of a batch
c_Resp200 == << <<"2","0","0">>, <<>>, <<"o","k">> >>
c_Resp201 == << <<"2","0","1">>, <<>>, <<"c","r","e","a","t","e","d">> >>
c_Resp404 == << <<"4","0","4">>, <<"1","0","0","2">>, <<>> >>
c_RespOK  == << <<"O","K">>, <<>>, <<"f","i","n","e">> >>

BuildPages ==
    { Page(<<Heading(<<"h","1">>, <<"G","E","T"," ","/","a">>)>>, <<<<"o","n","e">>>>, <<>>, <<>>),
      Page(<<Heading(<<"h","1">>, <<"G","E","T"," ","/","a">>)>>, <<<<"t","w","o">>>>,
           <<Table(c_RespCaption, <<RespHeaderRow, c_RespOK, c_Resp404>>)>>, <<>>),
      Page(<<Heading(<<"h","1">>, <<"p","o","s","t"," ","/","a">>)>>, <<>>,
           <<Table(c_RespCaption, <<RespHeaderRow, c_Resp200, c_Resp201>>)>>,
           <<PreJson(PyList(<<PyInt(1)>>))>>),
      Page(<<Heading(<<"H","1">>, <<"G","E","T"," ","/","b","/","{","i","d","}">>)>>, <<>>,
           <<Table(c_ParamCaption,
                   <<ParamHeaderRow,
                     ParamRow(<<"i","d">>, <<"P","a","t","h">>, <<"O","p","t","i","o","n","a","l">>, <<"N","u","m","b","e","r"," ","(","I","n","t","e","g","e","r",")">>)>>)>>,
           <<>>),
      Page(<<Heading(<<"h","2">>, <<"G","E","T"," ","/","c">>)>>, <<<<"t","h","r","e","e">>>>,
           <<Table(c_RespCaption, <<RespHeaderRow, c_Resp200>>)>>, <<>>),
      Page(<<>>, <<>>, <<Table(c_RespCaption, <<RespHeaderRow>>)>>, <<>>) }

MaxFiles == 3

-----------------------------------------------------------------------------
(* Run 3: build_openapi over a batch of pages                              *)

InitBuild ==
    /\ pc = "loop"
    /\ html_files \in SeqsUpTo(BuildPages, MaxFiles)
    /\ file_idx = 0
    /\ paths = <<>>
    /\ skipped = {}
    /\ IdleSchema /\ IdleParse /\ IdleSdk
    /\ IdleHttp /\ IdleScan

\* A plausible slip: the loop left (break) at the first page without title
SkipFileAborts ==
    /\ pc = "loop"
    /\ file_idx < Len(html_files)
    /\ ParseHtmlFile(html_files[file_idx + 1]) = EmptyDict
    /\ skipped' = skipped \cup {file_idx + 1}
    /\ file_idx' = file_idx + 1
    /\ pc' = "done"
    /\ UNCHANGED <<html_files, paths, schemaVars, parseVars, sdkVars>>
    /\ UNCHANGED <<httpVars, scanVars>>

\* One turn of the for loop on a page whose record is empty: SKIP, continue
SkipFile ==
    /\ pc = "loop"
    /\ file_idx < Len(html_files)
    /\ ParseHtmlFile(html_files[file_idx + 1]) = EmptyDict
    /\ skipped' = skipped \cup {file_idx + 1}
    /\ file_idx' = file_idx + 1
    /\ UNCHANGED <<pc, html_files, paths, schemaVars, parseVars, sdkVars>>
    /\ UNCHANGED <<httpVars, scanVars>>

\* One turn of the for loop on a page with a record: the operation is put
\* under its path and method
FoldFile ==
    /\ pc = "loop"
    /\ file_idx < Len(html_files)
    /\ ParseHtmlFile(html_files[file_idx + 1]) # EmptyDict
    /\ LET data == ParseHtmlFile(html_files[file_idx + 1])
       IN  paths' = PutOperation(paths, data.api_path, Lower(data.method),
                                 OperationOf(data))
    /\ file_idx' = file_idx + 1
    /\ UNCHANGED <<pc, html_files, skipped, schemaVars, parseVars, sdkVars>>
    /\ UNCHANGED <<httpVars, scanVars>>

\* The loop is over: return spec
BuildReturn ==
    /\ pc = "loop"
    /\ file_idx = Len(html_files)
    /\ pc' = "done"
    /\ UNCHANGED <<html_files, file_idx, paths, skipped, schemaVars, parseVars,
                   sdkVars>>
    /\ UNCHANGED <<httpVars, scanVars>>

NextBuild == SkipFile \/ FoldFile \/ BuildReturn

SpecBuild == InitBuild /\ [][NextBuild]_vars

-----------------------------------------------------------------------------
(* Properties of build_openapi                                             *)

\* "METHOD /path" read off a heading text, stated by where its parts lie:
\* white space up to i, the method in i..j-1, white space in j..k-1, the
\* path in k..l, and nothing or a white space or "<" after l
TitleSplits(text) ==
    LET n  == Len(text)
        s1 == { i \in 1..n : \A x \in 1..(i - 1) : IsSpace(text[x]) }
        s2 == { p \in s1 \X (1..n) :
                  /\ p[1] < p[2]
                  /\ Upper(SubSeq(text, p[1], p[2] - 1)) \in TitleMethods }
        s3 == { q \in s2 \X (1..n) :
                  /\ q[1][2] < q[2]
                  /\ \A x \in q[1][2]..(q[2] - 1) : IsSpace(text[x])
                  /\ text[q[2]] = "/" }
        s4 == { r \in s3 \X (1..n) :
                  /\ r[1][2] < r[2]
                  /\ \A x \in (r[1][2] + 1)..r[2] :
                        ~IsSpace(text[x]) /\ text[x] # "<"
                  /\ r[2] < n => (IsSpace(text[r[2] + 1]) \/ text[r[2] + 1] = "<") }
    IN  { <<r[1][1][1], r[1][1][2], r[1][2], r[2]>> : r \in s4 }

HasTitle(page) ==
    \E h \in DOMAIN page.headings :
        /\ page.headings[h].tag \in {<<"h","1">>, <<"H","1">>}
        /\ TitleSplits(page.headings[h].text) # {}

\* <<path, method in lower case>> of a page that has a title
TitleKey(page) ==
    LET h    == CHOOSE h \in DOMAIN page.headings :
                    /\ page.headings[h].tag \in {<<"h","1">>, <<"H","1">>}
                    /\ TitleSplits(page.headings[h].text) # {}
                    /\ \A g \in 1..(h - 1) :
                          ~ /\ page.headings[g].tag \in {<<"h","1">>, <<"H","1">>}
                            /\ TitleSplits(page.headings[g].text) # {}
        text == page.headings[h].text
        s    == CHOOSE s \in TitleSplits(text) : TRUE
    IN  <<SubSeq(text, s[3], s[4]), Lower(SubSeq(text, s[1], s[2] - 1))>>

\* The <<path, method>> pairs a document holds
DocumentKeysOf(entries) ==
    UNION { { <<entries[k].path, m>> : m \in DOMAIN entries[k].ops } :
            k \in DOMAIN entries }

\* C1: a page with no <h1> "METHOD /path" heading gives the empty record,
\* is reported as skipped and adds no path and no operation; the pages
\* after it that have the heading are still folded: at every moment the
\* document holds exactly the path+method pairs of the titled pages
\* consumed so far, and the run ends only when every page was consumed.
C1_UntitledPagesSkipped ==
    /\ \A i \in 1..file_idx :
          ~HasTitle(html_files[i]) <=> i \in skipped
    /\ \A i \in 1..Len(html_files) :
          ~HasTitle(html_files[i]) => ParseHtmlFile(html_files[i]) = EmptyDict
    /\ DocumentKeysOf(paths) =
          { TitleKey(html_files[i]) :
              i \in {j \in 1..file_idx : HasTitle(html_files[j])} }
    /\ { paths[k].path : k \in DOMAIN paths } =
          { TitleKey(html_files[i])[1] :
              i \in {j \in 1..file_idx : HasTitle(html_files[j])} }
    /\ pc = "done" => file_idx = Len(html_files)

\* An untitled page first, titled pages after it, all folded
C1_Witness ==
    /\ pc = "done"
    /\ Len(html_files) = 3
    /\ ~HasTitle(html_files[1])
    /\ HasTitle(html_files[2]) /\ HasTitle(html_files[3])
    /\ skipped = {1}
    /\ Cardinality(DocumentKeysOf(paths)) = 2

\* C9: every operation of the document has a non-empty responses map.
C9_ResponsesNonEmpty ==
    \A k \in DOMAIN paths :
        \A m \in DOMAIN paths[k].ops :
            DOMAIN paths[k].ops[m].responses # {}

\* An operation whose page has no response table, with its synthetic 200
C9_Witness ==
    /\ pc = "done"
    /\ \E i \in 1..Len(html_files) :
          HasTitle(html_files[i]) /\ html_files[i].tables = <<>>
    /\ \E k \in DOMAIN paths :
          \E m \in DOMAIN paths[k].ops :
              DOMAIN paths[k].ops[m].responses = {s_200}

-----------------------------------------------------------------------------
(* generate_sdk.py : names                                                 *)

\* The characters of the model in code-point order (the order sorted() uses)
CodePointOrder ==
    <<" ", "-", "/">> \o DigitChars \o <<"<", ">">> \o UpperChars \o <<"_">>
    \o LowerChars \o <<"{", "}">>

CodePoint(c) == CHOOSE i \in DOMAIN CodePointOrder : CodePointOrder[i] = c

\* a < b for two strings
RECURSIVE StrLess(_, _)
StrLess(a, b) ==
    IF b = <<>> THEN FALSE
    ELSE IF a = <<>> THEN TRUE
    ELSE IF Head(a) = Head(b) THEN StrLess(Tail(a), Tail(b))
    ELSE CodePoint(Head(a)) < CodePoint(Head(b))

\* str(n) for n >= 0
RECURSIVE IntToStr(_)
IntToStr(n) ==
    IF n < 10 THEN <<DigitChars[n + 1]>>
    ELSE IntToStr(n \div 10) \o <<DigitChars[(n % 10) + 1]>>

s_self    == <<"s","e","l","f">>
s_body    == <<"b","o","d","y">>
s_range   == <<"r","a","n","g","e">>
s_range_header == <<"r","a","n","g","e","_","h","e","a","d","e","r">>
s_kwargs  == <<"*","*","k","w","a","r","g","s">>
s_default == <<"d","e","f","a","u","l","t">>
s_api_suffix == <<"_","a","p","i">>

\* The names _sanitise_module_name moves out of the way
ReservedModuleNames ==
    { <<"a","u","t","h">>, <<"h","e","l","p">>, <<"t","y","p","e">>, <<"i","n","p","u","t">>, <<"f","i","l","t","e","r">>, <<"i","d">>, <<"l","i","s","t">>,
      <<"s","e","t">>, <<"m","a","p">>, <<"h","a","s","h">>, <<"f","o","r","m","a","t">>, <<"o","p","e","n">>, <<"i","m","p","o","r","t">> }

\* _sanitise_module_name
SanitiseModuleName(tag) ==
    IF ToSnake(tag) \in ReservedModuleNames
    THEN ToSnake(tag) \o s_api_suffix
    ELSE ToSnake(tag)

\* re.split(r'[_\-\s]+', tag)
RECURSIVE SplitWords(_)
SplitWords(s) ==
    LET seps == {"_", "-", " ", "\t", "\n"}
        word == TakeWhileNot(s, seps)
        rest == SubSeq(s, Len(word) + 1, Len(s))
    IN  IF rest = <<>> THEN <<word>>
        ELSE <<word>> \o SplitWords(LStripSet(rest, seps))

\* str.capitalize
Capitalize(w) == IF w = <<>> THEN <<>> ELSE <<UpperCh(w[1])>> \o Lower(Tail(w))

\* _class_name
ClassName(tag) ==
    LET words == SplitWords(tag)
        F[i \in 0..Len(words)] ==
            IF i = 0 THEN <<>> ELSE F[i - 1] \o Capitalize(words[i])
    IN  F[Len(words)] \o <<"A","P","I">>

\* _path_to_method_name
PathToMethodName(method, path) ==
    LET segs  == PathParts(path)
        parts == <<Lower(method)>> \o
                 [i \in DOMAIN segs |-> DropAll(segs[i], {"{", "}"})]
    IN  ToSnake(Join(SeqFilterNonEmpty(parts), <<"_">>))

\* A plausible slip: "if" where the code has "while"
UniqueNameOnce(original, seen_names) ==
    IF original \in seen_names THEN original \o <<"_">> \o IntToStr(2)
    ELSE original

\* while func_name in seen_names: func_name = f'{original}_{counter}'
RECURSIVE NameFromCounter(_, _, _)
NameFromCounter(original, counter, seen_names) ==
    IF (original \o <<"_">> \o IntToStr(counter)) \in seen_names
    THEN NameFromCounter(original, counter + 1, seen_names)
    ELSE original \o <<"_">> \o IntToStr(counter)

UniqueName(original, seen_names) ==
    IF original \in seen_names
    THEN NameFromCounter(original, 2, seen_names)
    ELSE original

-----------------------------------------------------------------------------
(* generate_sdk.py : _collect_operations                                   *)
(*                                                                         *)
(* The document read from the spec file is spec['paths'] as a sequence of  *)
(* entries [path, parameters, ops]: the path, its path-level parameters    *)
(* and the operation objects of the path item by method key.               *)

\* d.get(key, default)
Get(d, key, default) == IF key \in DOMAIN d THEN d[key] ELSE default

m_get     == <<"g","e","t">>
m_post    == <<"p","o","s","t">>
m_put     == <<"p","u","t">>
m_patch   == <<"p","a","t","c","h">>
m_delete  == <<"d","e","l","e","t","e">>
m_head    == <<"h","e","a","d">>
m_options == <<"o","p","t","i","o","n","s">>

\* http_methods
HttpMethods == <<m_get, m_post, m_put, m_patch, m_delete, m_head, m_options>>

SelectSeq2(s, Test(_)) ==
    LET F[i \in 0..Len(s)] ==
            IF i = 0 THEN <<>>
            ELSE IF Test(s[i]) THEN Append(F[i - 1], s[i]) ELSE F[i - 1]
    IN  F[Len(s)]

\* resp_schema: the schema of the first media type of the 200 response,
\* else of the 201 response
ResponseSchemaOf(operation) ==
    LET responses == Get(operation, "responses", EmptyDict)
        schema_of(code) ==
            LET resp    == Get(responses, code, EmptyDict)
                media   == Get(resp, "content", EmptyDict)
            IN  IF DOMAIN media = {} THEN EmptyDict
                ELSE Get(media[CHOOSE m \in DOMAIN media : TRUE], "schema", EmptyDict)
    IN  IF schema_of(s_200) # EmptyDict THEN schema_of(s_200)
        ELSE schema_of(s_201)

\* The dict appended to ops_by_tag[tag] for one operation object
CollectedOp(entry, method) ==
    LET operation == entry.ops[method]
    IN  [ method          |-> method,
          path            |-> entry.path,
          operation_id    |-> Get(operation, "operationId", <<>>),
          summary         |-> Get(operation, "summary", <<>>),
          parameters      |-> entry.parameters \o Get(operation, "parameters", <<>>),
          request_body    |-> Get(operation, "requestBody", PyNone),
          response_schema |-> ResponseSchemaOf(operation) ]

\* tags[0] if tags else 'default'
TagOf(operation) ==
    LET tags == Get(operation, "tags", <<s_default>>)
    IN  IF tags # <<>> THEN tags[1] ELSE s_default

\* The methods of a path item that are taken: present and not empty
TakenMethods(entry) ==
    SelectSeq2(HttpMethods,
               LAMBDA m : m \in DOMAIN entry.ops /\ entry.ops[m] # EmptyDict)

\* ops_by_tag[tag].append(op): ops_by_tag as a sequence of [tag, operations]
\* in the order the tags were first met
AppendToTag(by_tag, tag, op) ==
    IF \E i \in DOMAIN by_tag : by_tag[i].tag = tag
    THEN LET at == CHOOSE i \in DOMAIN by_tag : by_tag[i].tag = tag
         IN  [by_tag EXCEPT ![at].operations = Append(@, op)]
    ELSE Append(by_tag, [tag |-> tag, operations |-> <<op>>])

RECURSIVE CollectPath(_, _, _)
CollectPath(by_tag, entry, methods) ==
    IF methods = <<>> THEN by_tag
    ELSE CollectPath(AppendToTag(by_tag, TagOf(entry.ops[Head(methods)]),
                                 CollectedOp(entry, Head(methods))),
                     entry, Tail(methods))

\* _collect_operations
RECURSIVE CollectFrom(_, _)
CollectFrom(by_tag, entries) ==
    IF entries = <<>> THEN by_tag
    ELSE CollectFrom(CollectPath(by_tag, Head(entries), TakenMethods(Head(entries))),
                     Tail(entries))

CollectOperations(doc) == CollectFrom(<<>>, doc)

\* sorted(ops_by_tag.items())
RECURSIVE SortedByTag(_)
SortedByTag(by_tag) ==
    IF by_tag = <<>> THEN <<>>
    ELSE LET least == CHOOSE i \in DOMAIN by_tag :
                          \A j \in DOMAIN by_tag :
                              j # i => StrLess(by_tag[i].tag, by_tag[j].tag)
         IN  <<by_tag[least]>> \o
             SortedByTag(SubSeq(by_tag, 1, least - 1)
                         \o SubSeq(by_tag, least + 1, Len(by_tag)))

-----------------------------------------------------------------------------
(* generate_sdk.py : _generate_api_module                                  *)
(*                                                                         *)
(* A generated method is a record: its name, its signature (the argument   *)
(* names in order, each positional, keyword or the catch-all) and the      *)
(* session method its body calls.                                          *)

Arg(name, kind) == [name |-> name, kind |-> kind]

\* p.get('in') == 'path'
PathParams(parameters) ==
    SelectSeq2(parameters, LAMBDA p : Get(p, "in", <<>>) = s_path)

\* p.get('in') in ('query', 'header')
OptionalParams(parameters) ==
    SelectSeq2(parameters, LAMBDA p : Get(p, "in", <<>>) \in {s_query, s_header})

\* the keyword name of an optional parameter
KeywordName(p) ==
    IF ToSnake(p.name) = s_range THEN s_range_header ELSE ToSnake(p.name)

\* if request_body: (None and {} are false)
Truthy(request_body) == request_body # PyNone /\ request_body # EmptyDict

\* A plausible slip: the catch-all left out of the signature
SignatureNoCatchAll(parameters, request_body) ==
    LET path_params     == PathParams(parameters)
        optional_params == OptionalParams(parameters)
    IN  <<Arg(s_self, "positional")>>
        \o [i \in DOMAIN path_params |->
               Arg(ToSnake(path_params[i].name), "positional")]
        \o (IF Truthy(request_body) THEN <<Arg(s_body, "keyword")>> ELSE <<>>)
        \o [i \in DOMAIN optional_params |->
               Arg(KeywordName(optional_params[i]), "keyword")]

\* A plausible slip: body goes after the optional keywords
SignatureBodyLast(parameters, request_body) ==
    LET path_params     == PathParams(parameters)
        optional_params == OptionalParams(parameters)
    IN  <<Arg(s_self, "positional")>>
        \o [i \in DOMAIN path_params |->
               Arg(ToSnake(path_params[i].name), "positional")]
        \o [i \in DOMAIN optional_params |->
               Arg(KeywordName(optional_params[i]), "keyword")]
        \o (IF Truthy(request_body) THEN <<Arg(s_body, "keyword")>> ELSE <<>>)
        \o <<Arg(s_kwargs, "catch_all")>>

\* sig_parts + kw_args
Signature(parameters, request_body) ==
    LET path_params     == PathParams(parameters)
        optional_params == OptionalParams(parameters)
        sig_parts ==
            <<Arg(s_self, "positional")>>
            \o [i \in DOMAIN path_params |->
                   Arg(ToSnake(path_params[i].name), "positional")]
        kw_args ==
            (IF Truthy(request_body) THEN <<Arg(s_body, "keyword")>> ELSE <<>>)
            \o [i \in DOMAIN optional_params |->
                   Arg(KeywordName(optional_params[i]), "keyword")]
            \o <<Arg(s_kwargs, "catch_all")>>
    IN  sig_parts \o kw_args

s_fields  == <<"f","i","e","l","d","s">>
s_filter  == <<"f","i","l","t","e","r">>
s_sort    == <<"s","o","r","t">>

\* str.replace(old, new), for a non-empty old
RECURSIVE ReplaceAll(_, _, _)
ReplaceAll(s, old, new) ==
    IF Len(s) < Len(old) THEN s
    ELSE IF SubSeq(s, 1, Len(old)) = old
    THEN new \o ReplaceAll(SubSeq(s, Len(old) + 1, Len(s)), old, new)
    ELSE <<Head(s)>> \o ReplaceAll(Tail(s), old, new)

\* url = url.replace('{' + p['name'] + '}', '{' + pname + '}') for each
\* path parameter
RECURSIVE MethodUrl(_, _)
MethodUrl(url, path_params) ==
    IF path_params = <<>> THEN url
    ELSE MethodUrl(ReplaceAll(url,
                              <<"{">> \o Head(path_params).name \o <<"}">>,
                              <<"{">> \o ToSnake(Head(path_params).name) \o <<"}">>),
                   Tail(path_params))

\* the index of the first c in s, 0 when there is none
FirstIndex(s, c) ==
    IF c \in Range(s) THEN CHOOSE i \in DOMAIN s : s[i] = c /\ \A j \in 1..(i - 1) : s[j] # c
    ELSE 0

\* the names an f-string evaluates: what stands between { and }
RECURSIVE Placeholders(_)
Placeholders(url) ==
    LET open == FirstIndex(url, "{")
        rest == SubSeq(url, open + 1, Len(url))
        shut == FirstIndex(rest, "}")
    IN  IF open = 0 \/ shut = 0 THEN {}
        ELSE {SubSeq(rest, 1, shut - 1)}
             \cup Placeholders(SubSeq(rest, shut + 1, Len(rest)))

\* url = f"{url}" if path_params else "{url}": only the f-string reads names
UrlReads(path, path_params) ==
    IF path_params # <<>> THEN Placeholders(MethodUrl(path, path_params)) ELSE {}

\* the query parameters that go into the params dict
QueryParams(optional_params) ==
    SelectSeq2(optional_params,
               LAMBDA p : /\ Get(p, "in", <<>>) = s_query
                          /\ ToSnake(p.name) \notin {s_fields, s_filter, s_sort})

\* the header parameters that go into the headers dict
HdrParams(optional_params) ==
    SelectSeq2(optional_params,
               LAMBDA p : Get(p, "in", <<>>) = s_header /\ ToSnake(p.name) # s_range)

\* the special query parameters handed on as fields=, filter_expr=, sort=
SpecialReads(optional_params) ==
    { ToSnake(optional_params[i].name) :
        i \in { j \in DOMAIN optional_params :
                  /\ Get(optional_params[j], "in", <<>>) = s_query
                  /\ ToSnake(optional_params[j].name) \in {s_fields, s_filter, s_sort} } }

\* The names the statements of a method body evaluate, self, kwargs and
\* the locals url, params and headers aside
BodyReads(path, parameters, request_body) ==
    LET path_params     == PathParams(parameters)
        optional_params == OptionalParams(parameters)
        query_params    == QueryParams(optional_params)
        hdr_params      == HdrParams(optional_params)
    IN  UrlReads(path, path_params)
        \cup { ToSnake(query_params[i].name) : i \in DOMAIN query_params }
        \cup { ToSnake(hdr_params[i].name) : i \in DOMAIN hdr_params }
        \cup (IF \E i \in DOMAIN optional_params :
                    ToSnake(optional_params[i].name) = s_range
              THEN {s_range_header} ELSE {})
        \cup SpecialReads(optional_params)
        \cup (IF Truthy(request_body) THEN {s_body} ELSE {})

\* The names given to the first n operations of a module, in order
RECURSIVE MethodNames(_, _)
MethodNames(operations, n) ==
    IF n = 0 THEN <<>>
    ELSE LET before == MethodNames(operations, n - 1)
             op     == operations[n]
         IN  Append(before,
                    UniqueName(PathToMethodName(op.method, op.path), Range(before)))

\* _generate_api_module: the methods of the class, in order
GenerateApiModule(tag, operations) ==
    LET names == MethodNames(operations, Len(operations))
    IN  [i \in DOMAIN operations |->
            [ name      |-> names[i],
              signature |-> Signature(operations[i].parameters,
                                      operations[i].request_body),
              docstring |-> IF Strip(operations[i].summary) # <<>>
                            THEN Strip(operations[i].summary)
                            ELSE <<"C","a","l","l"," ">> \o Upper(operations[i].method) \o <<" ">>
                                 \o operations[i].path,
              reads     |-> BodyReads(operations[i].path, operations[i].parameters,
                                      operations[i].request_body),
              calls     |-> operations[i].method ]]

\* One file written by generate: api/<module_name>.py
ModuleFile(tag, operations) ==
    [ tag         |-> tag,
      module_name |-> SanitiseModuleName(tag),
      class_name  |-> ClassName(tag),
      methods     |-> GenerateApiModule(tag, operations) ]

-----------------------------------------------------------------------------
(* The documents generate is run on                                        *)

MaxOps == 3

\* A parameter object of the document
DocParam(name, location) ==
    [ name |-> name, in |-> location, description |-> <<>>,
      required |-> location = s_path, schema |-> [type |-> "string"] ]

\* An operation object: tags is <<>> (no tags key) or <<tags>>, has_body
\* tells whether it has a requestBody
DocOperation(summary, tags_key, parameters, has_body) ==
    LET base == [ summary   |-> summary,
                  responses |-> (s_200 :> [description |-> s_Success]) ]
        t    == IF tags_key # <<>> THEN ("tags" :> tags_key[1]) @@ base ELSE base
        p    == IF parameters # <<>> THEN ("parameters" :> parameters) @@ t ELSE t
    IN  IF has_body
        THEN ("requestBody" :>
                 [ required |-> TRUE,
                   content  |-> (s_application_json :>
                                    [schema |-> [type |-> "object"]]) ]) @@ p
        ELSE p

DocEntry(path, path_parameters, ops) ==
    [path |-> path, parameters |-> path_parameters, ops |-> ops]

\* Documents with one path and one operation
SingleOpDocs ==
    { <<DocEntry(path, <<>>,
                 (method :> DocOperation(<<>>, tags_key, parameters, has_body)))>> :
        path \in {<<"/","w","i","d","g","e","t","s">>, <<"/","W","i","d","g","e","t","s","/","a","-","b">>, <<"/","a","s">>},
        method \in {m_get, m_post},
        tags_key \in {<<>>, << <<>> >>, << <<<<"w","i","d","g","e","t","s">>>> >>},
        parameters \in { <<>>,
                         <<DocParam(<<"l","i","m","i","t">>, s_query)>>,
                         <<DocParam(<<"R","a","n","g","e">>, s_header), DocParam(<<"f","i","e","l","d","s">>, s_query)>>,
                         <<DocParam(<<"i","d">>, s_path)>> },
        has_body \in BOOLEAN }

\* Paths of one tag whose method names collide
CollidingPaths ==
    { <<"/","a","/","b","_","c">>, <<"/","a","/","b","-","c">>, <<"/","a","/","b","/","c">>, <<"/","a","/","{","b","}","/","c">>, <<"/","a","/","b","/","c","/","2">>, <<"/","a","/","b","_","c","_","2">> }

NoRepeat(s) == \A i, j \in DOMAIN s : i # j => s[i] # s[j]

\* Documents of up to MaxOps paths, each with a GET operation of the tag a
\* (the first of them also with a POST)
OneTagDocs ==
    { [i \in DOMAIN ps |->
          DocEntry(ps[i], <<>>,
                   IF i = 1 /\ Len(ps) < MaxOps
                   THEN (m_get :> DocOperation(<<"f","i","r","s","t">>, << <<<<"a">>>> >>, <<>>, FALSE))
                        @@ (m_post :> DocOperation(<<>>, << <<<<"a">>>> >>, <<>>, TRUE))
                   ELSE (m_get :> DocOperation(<<>>, << <<<<"a">>>> >>, <<>>, FALSE)))] :
        ps \in {s \in SeqsUpTo(CollidingPaths, MaxOps) : NoRepeat(s)} }

\* Documents of two paths with one operation object each: tagged help,
\* help_api or a, or empty; under get, head, options or trace
TaggedOps ==
    { EmptyDict }
    \cup { DocOperation(<<>>, << <<tag>> >>, <<>>, FALSE) :
             tag \in {<<"h","e","l","p">>, <<"h","e","l","p","_","a","p","i">>, <<"a">>} }

TwoTagDocs ==
    { <<DocEntry(<<"/","x">>, <<>>, (m1 :> op1)), DocEntry(<<"/","y">>, <<>>, (m2 :> op2))>> :
        m1 \in {m_get, m_head}, m2 \in {m_get, m_options, <<"t","r","a","c","e">>},
        op1 \in TaggedOps, op2 \in TaggedOps }

\* Documents with one path and one operation whose parameters mix the
\* locations, name a query parameter range or filter, or leave a
\* placeholder of the path undeclared
MixedParamDocs ==
    { <<DocEntry(path, <<>>,
                 (method :> DocOperation(<<>>, <<>>, parameters, has_body)))>> :
        path \in {<<"/","a","/","{","i","d","}">>, <<"/","a","/","{","u","s","e","r","I","d","}","/","{","x","}">>},
        method \in {m_get, m_post},
        parameters \in { <<DocParam(<<"i","d">>, s_path)>>,
                         <<DocParam(<<"u","s","e","r","I","d">>, s_path), DocParam(<<"x">>, s_path)>>,
                         <<DocParam(<<"r","a","n","g","e">>, s_query)>>,
                         <<DocParam(<<"i","d">>, s_path), DocParam(<<"r","a","n","g","e">>, s_query)>>,
                         <<DocParam(<<"f","i","l","t","e","r">>, s_query), DocParam(<<"i","d">>, s_path)>>,
                         <<DocParam(<<"q">>, s_query), DocParam(<<"u","s","e","r","I","d">>, s_path),
                           DocParam(<<"R","a","n","g","e">>, s_header), DocParam(<<"x">>, s_path),
                           DocParam(<<"s","o","r","t">>, s_query)>> },
        has_body \in BOOLEAN }

SdkDocs == SingleOpDocs \cup OneTagDocs \cup TwoTagDocs \cup MixedParamDocs

-----------------------------------------------------------------------------
(* Run 4: generate over one document                                       *)

InitSdk ==
    /\ pc = "read"
    /\ openapi \in SdkDocs
    /\ ops_by_tag = <<>>
    /\ modules = <<>>
    /\ api_dir = <<>>
    /\ IdleSchema /\ IdleParse /\ IdleBuild
    /\ IdleHttp /\ IdleScan

\* ops_by_tag = _collect_operations(spec)
CollectStep ==
    /\ pc = "read"
    /\ ops_by_tag' = CollectOperations(openapi)
    /\ pc' = "write"
    /\ UNCHANGED <<openapi, modules, api_dir, schemaVars, parseVars, buildVars>>
    /\ UNCHANGED <<httpVars, scanVars>>

\* One turn of "for tag, operations in sorted(ops_by_tag.items())": the
\* module of the tag is generated and written to api/<module_name>.py,
\* replacing a file of that name
WriteModule ==
    /\ pc = "write"
    /\ Len(modules) < Len(ops_by_tag)
    /\ LET item == SortedByTag(ops_by_tag)[Len(modules) + 1]
           file == ModuleFile(item.tag, item.operations)
       IN  /\ modules' = Append(modules, file)
           /\ api_dir' = (file.module_name :> file) @@ api_dir
    /\ UNCHANGED <<pc, openapi, ops_by_tag, schemaVars, parseVars, buildVars>>
    /\ UNCHANGED <<httpVars, scanVars>>

\* The loop is over; the remaining files are templates
GenerateReturn ==
    /\ pc = "write"
    /\ Len(modules) = Len(ops_by_tag)
    /\ pc' = "done"
    /\ UNCHANGED <<openapi, ops_by_tag, modules, api_dir, schemaVars, parseVars,
                   buildVars>>
    /\ UNCHANGED <<httpVars, scanVars>>

NextSdk == CollectStep \/ WriteModule \/ GenerateReturn

SpecSdk == InitSdk /\ [][NextSdk]_vars

-----------------------------------------------------------------------------
(* Properties of generate                                                  *)

\* The document has a single operation, a GET, on a path without
\* placeholders and with no path parameter declared
SingleGetDocument(doc) ==
    /\ Len(doc) = 1
    /\ DOMAIN doc[1].ops = {m_get}
    /\ doc[1].ops[m_get] # EmptyDict
    /\ \A i \in DOMAIN doc[1].path : doc[1].path[i] \notin {"{", "}"}
    /\ \A i \in DOMAIN doc[1].parameters : doc[1].parameters[i].in # s_path
    /\ \A i \in DOMAIN Get(doc[1].ops[m_get], "parameters", <<>>) :
          doc[1].ops[m_get].parameters[i].in # s_path

\* C5: for a document whose only operation is a GET on a path without path
\* parameters, generate writes exactly one tag module, its class has
\* exactly one method, named get plus the snake_cased path segments, whose
\* only positional parameter is self and whose last parameter is the
\* catch-all **kwargs.
C5_SingleGetOneMethod ==
    (pc = "done" /\ SingleGetDocument(openapi)) =>
        /\ Len(modules) = 1
        /\ Len(modules[1].methods) = 1
        /\ LET m    == modules[1].methods[1]
               segs == SeqFilterNonEmpty(SplitOn(openapi[1].path, "/"))
           IN  /\ m.name = ToSnake(<<"g","e","t","_">> \o Join(segs, <<"_">>))
               /\ m.signature[1] = Arg(s_self, "positional")
               /\ \A i \in 2..Len(m.signature) :
                     m.signature[i].kind # "positional"
               /\ m.signature[Len(m.signature)] = Arg(s_kwargs, "catch_all")
               /\ \A i \in 1..(Len(m.signature) - 1) :
                     m.signature[i].kind # "catch_all"

\* GET /widgets tagged widgets gives the module widgets with get_widgets
C5_Witness ==
    /\ pc = "done"
    /\ SingleGetDocument(openapi)
    /\ openapi[1].path = <<"/","w","i","d","g","e","t","s">>
    /\ Get(openapi[1].ops[m_get], "tags", <<>>) = <<<<"w","i","d","g","e","t","s">>>>
    /\ Len(modules) = 1
    /\ modules[1].tag = <<"w","i","d","g","e","t","s">>
    /\ modules[1].methods[1].name = <<"g","e","t","_","w","i","d","g","e","t","s">>
    /\ modules[1].methods[1].signature =
          <<Arg(s_self, "positional"), Arg(s_kwargs, "catch_all")>>

\* C6: no two methods of a generated class have the same name.
C6_MethodNamesDistinct ==
    \A k \in DOMAIN modules :
        \A i, j \in DOMAIN modules[k].methods :
            i # j => modules[k].methods[i].name # modules[k].methods[j].name

\* Two operations named get_a_b_c and a third whose own name is the
\* suffixed get_a_b_c_2
C6_Witness ==
    /\ pc = "done"
    /\ \E k \in DOMAIN modules :
          /\ Len(modules[k].methods) = 3
          /\ modules[k].methods[1].name = <<"g","e","t","_","a","_","b","_","c">>
          /\ modules[k].methods[2].name =
                <<"g","e","t","_","a","_","b","_","c","_","2">>
          /\ modules[k].methods[3].name =
                <<"g","e","t","_","a","_","b","_","c","_","2","_","2">>

\* The number of operation objects of a document
RECURSIVE OperationCount(_)
OperationCount(doc) ==
    IF doc = <<>> THEN 0
    ELSE Cardinality(DOMAIN Head(doc).ops) + OperationCount(Tail(doc))

\* The number of methods in the files of the api directory
RECURSIVE MethodCount(_, _)
MethodCount(dir, names) ==
    IF names = {} THEN 0
    ELSE LET n == CHOOSE n \in names : TRUE
         IN  Len(dir[n].methods) + MethodCount(dir, names \ {n})

\* C11: generation drops no operation: when generate is done, the written
\* tag modules hold as many methods as the document has operation objects.
C11_NoOperationDropped ==
    pc = "done" => MethodCount(api_dir, DOMAIN api_dir) = OperationCount(openapi)

-----------------------------------------------------------------------------
(* Overwrites and order in build_openapi                                   *)

\* The pages among the first n that have a title, by index
TitledUpTo(files, n) == { i \in 1..n : HasTitle(files[i]) }

\* The last page among the first n whose title is the path and method
LastPageOf(files, n, key) ==
    LET S == { i \in TitledUpTo(files, n) : TitleKey(files[i]) = key }
    IN  CHOOSE i \in S : \A j \in S : j <= i

\* C12: when several pages of a batch have the same path and method, the
\* document holds one operation for the pair, the one of the page
\* processed last; the operations of other methods and paths are those of
\* their own last pages, untouched by the overwrite.
C12_LastFileWins ==
    /\ \A k, l \in DOMAIN paths : paths[k].path = paths[l].path => k = l
    /\ \A k \in DOMAIN paths :
          \A m \in DOMAIN paths[k].ops :
              LET key == <<paths[k].path, m>>
              IN  /\ \E i \in TitledUpTo(html_files, file_idx) :
                        TitleKey(html_files[i]) = key
                  /\ paths[k].ops[m] =
                        OperationOf(ParseHtmlFile(
                            html_files[LastPageOf(html_files, file_idx, key)]))

\* Two pages GET /a with different summaries and a page POST /a between
\* them: the document has the summary of the third page, and the POST
C12_Witness ==
    /\ pc = "done"
    /\ Len(html_files) = 3
    /\ TitledUpTo(html_files, 3) = {1, 2, 3}
    /\ TitleKey(html_files[1]) = <<<<"/","a">>, m_get>>
    /\ TitleKey(html_files[2]) = <<<<"/","a">>, m_post>>
    /\ TitleKey(html_files[3]) = <<<<"/","a">>, m_get>>
    /\ html_files[1].shortdesc # html_files[3].shortdesc
    /\ Len(paths) = 1
    /\ DOMAIN paths[1].ops = {m_get, m_post}
    /\ paths[1].ops[m_get].summary = html_files[3].shortdesc[1]
    /\ paths[1].ops[m_post] = OperationOf(ParseHtmlFile(html_files[2]))

\* The distinct paths of the titled pages among the first n, in the order
\* in which each was first met
RECURSIVE FirstSeenPaths(_, _)
FirstSeenPaths(files, n) ==
    IF n = 0 THEN <<>>
    ELSE LET before == FirstSeenPaths(files, n - 1)
         IN  IF ~HasTitle(files[n]) THEN before
             ELSE IF \E i \in DOMAIN before : before[i] = TitleKey(files[n])[1]
                  THEN before
                  ELSE Append(before, TitleKey(files[n])[1])

\* C13: the keys of the paths mapping are in the order in which each
\* distinct path was first produced by a parsed page; a later page on an
\* existing path does not move it.
C13_FirstInsertionOrder ==
    [k \in DOMAIN paths |-> paths[k].path] = FirstSeenPaths(html_files, file_idx)

\* /a, then /b/{id}, then /a again under another method: /a stays first
C13_Witness ==
    /\ pc = "done"
    /\ Len(html_files) = 3
    /\ TitledUpTo(html_files, 3) = {1, 2, 3}
    /\ TitleKey(html_files[1])[1] = <<"/","a">>
    /\ TitleKey(html_files[2])[1] = <<"/","b","/","{","i","d","}">>
    /\ TitleKey(html_files[3]) = <<<<"/","a">>, m_post>>
    /\ Len(paths) = 2
    /\ paths[1].path = <<"/","a">>
    /\ paths[2].path = <<"/","b","/","{","i","d","}">>
    /\ DOMAIN paths[1].ops = {m_get, m_post}

-----------------------------------------------------------------------------
(* qradar_sdk/_http.py : QRadarSession                                     *)
(*                                                                         *)
(* Constructor arguments, query values and keyword arguments are Python    *)
(* values (PyNone, PyStr); header values are sequences of characters, so   *)
(* that the Range header is computed by concatenation.  The underlying     *)
(* HTTP session is the record [headers, auth, closed]; <<>> stands for     *)
(* "not created".                                                          *)

\* bool(x) of None or a str
IsTruthy(x) == x # PyNone /\ x # PyStr("")

\* A plausible slip: only an absent token counts as missing
NeedsAuthErrorNoneOnly(args) ==
    args.sec_token = PyNone /\ (args.username = PyNone \/ args.password = PyNone)

\* not sec_token and not (username and password)
NeedsAuthError(args) ==
    ~IsTruthy(args.sec_token)
    /\ ~(IsTruthy(args.username) /\ IsTruthy(args.password))

\* self._session.headers.update({...}) on a new requests.Session()
BaseHeaders(version) ==
    [ h \in {"Accept", "Content-Type", "Version"} |->
        IF h = "Version" THEN version ELSE "application/json" ]

\* A plausible slip: the credentials are set whenever they are given
NewSessionBothModes(args) ==
    [ headers |-> IF IsTruthy(args.sec_token)
                  THEN ("SEC" :> args.sec_token.v) @@ BaseHeaders("26.0")
                  ELSE BaseHeaders("26.0"),
      auth    |-> IF IsTruthy(args.username) /\ IsTruthy(args.password)
                  THEN [username |-> args.username, password |-> args.password]
                  ELSE PyNone,
      closed  |-> FALSE ]

\* The session __init__ leaves in self._session
NewSession(args) ==
    IF IsTruthy(args.sec_token)
    THEN [ headers |-> ("SEC" :> args.sec_token.v) @@ BaseHeaders("26.0"),
           auth    |-> PyNone,
           closed  |-> FALSE ]
    ELSE [ headers |-> BaseHeaders("26.0"),
           auth    |-> [username |-> args.username, password |-> args.password],
           closed  |-> FALSE ]

\* exceptions.py: the base class of each exception class
ExceptionBase ==
    [ c \in {"QRadarError", "QRadarAPIError", "QRadarAuthError",
             "QRadarNotFoundError", "QRadarRateLimitError", "AttributeError"} |->
        CASE c = "QRadarAPIError"       -> "QRadarError"
          [] c = "QRadarAuthError"      -> "QRadarError"
          [] c = "QRadarNotFoundError"  -> "QRadarAPIError"
          [] c = "QRadarRateLimitError" -> "QRadarAPIError"
          [] OTHER                      -> "Exception" ]

\* isinstance(an exception of class c, base)
RECURSIVE IsSubclass(_, _)
IsSubclass(c, base) ==
    IF c = base THEN TRUE
    ELSE IF c \notin DOMAIN ExceptionBase THEN FALSE
    ELSE IsSubclass(ExceptionBase[c], base)

\* No exception
NoError == [class |-> "none"]

\* The body of a response: empty, a JSON object (with a message, with a
\* description, with neither), JSON that is no object, or text that is not
\* JSON
BodyKinds ==
    { "empty", "object_message", "object_description", "object_other",
      "json_list", "json_null", "json_string", "text" }

\* resp.ok: no 4xx and no 5xx status
RespOk(resp) == ~(resp.status_code >= 400 /\ resp.status_code < 600)

\* resp.json() succeeds
BodyIsJson(resp) == resp.body \notin {"empty", "text"}

\* The message of lines 225-229, by where it is taken from
MessageOf(resp) ==
    CASE resp.body = "object_message"     -> "detail.message"
      [] resp.body = "object_description" -> "detail.description"
      [] resp.body = "object_other"       -> "str(detail)"
      [] resp.body = "text"               -> "resp.text"
      [] OTHER                            -> "resp.reason"

\* Lines 231-237: the exception chosen by status
ErrorByStatus(resp) ==
    IF resp.status_code = 401
    THEN [class |-> "QRadarAuthError", message |-> MessageOf(resp)]
    ELSE IF resp.status_code = 404
    THEN [class |-> "QRadarNotFoundError", status_code |-> resp.status_code,
          message |-> MessageOf(resp)]
    ELSE IF resp.status_code = 429
    THEN [class |-> "QRadarRateLimitError", status_code |-> resp.status_code,
          message |-> MessageOf(resp)]
    ELSE [class |-> "QRadarAPIError", status_code |-> resp.status_code,
          message |-> MessageOf(resp)]

\* _raise_for_status: the exception raised, NoError when it returns.  A
\* body that is JSON but no object has no .get: detail.get raises
\* AttributeError, which "except ValueError" does not catch
RaiseForStatus(resp) ==
    IF RespOk(resp) THEN NoError
    ELSE IF BodyIsJson(resp)
            /\ resp.body \notin {"object_message", "object_description", "object_other"}
    THEN [class |-> "AttributeError"]
    ELSE ErrorByStatus(resp)

\* {k: v for k, v in params.items() if v is not None}
DropNone(params) ==
    [k \in {x \in DOMAIN params : params[x] # PyNone} |-> params[k]]

\* merged_params[key] = value when value is not None
SetIfNotNone(d, key, value) ==
    IF value # PyNone THEN (key :> value) @@ d ELSE d

\* A plausible slip: the filter passed under the name of the keyword
MergedParamsFilterExpr(args) ==
    SetIfNotNone(
        SetIfNotNone(
            SetIfNotNone(DropNone(args.params), "fields", args.fields),
            "filter_expr", args.filter_expr),
        "sort", args.sort)

\* Lines 125-133: merged_params
MergedParams(args) ==
    SetIfNotNone(
        SetIfNotNone(
            SetIfNotNone(DropNone(args.params), "fields", args.fields),
            "filter", args.filter_expr),
        "sort", args.sort)

s_items == <<"i","t","e","m","s","=">>

\* A plausible slip: a Range entry of the caller is kept
MergedHeadersKeepCaller(args) ==
    IF args.range_header # <<>>
    THEN args.headers @@ ("Range" :> (s_items \o args.range_header[1]))
    ELSE args.headers

\* Lines 135-139: merged_headers; range_header is <<>> for None and <<r>>
\* for the string r
MergedHeaders(args) ==
    IF args.range_header # <<>>
    THEN ("Range" :> (s_items \o args.range_header[1])) @@ args.headers
    ELSE args.headers

\* What request hands to self._session.request; "d or None" of an empty
\* dict is None
Outgoing(args) ==
    [ method  |-> Upper(args.method),
      path    |-> args.path,
      params  |-> IF DOMAIN MergedParams(args) = {} THEN PyNone
                  ELSE PyDict(MergedParams(args)),
      headers |-> IF DOMAIN MergedHeaders(args) = {} THEN PyNone
                  ELSE PyDict(MergedHeaders(args)) ]

-----------------------------------------------------------------------------
(* The server of a paginated list endpoint                                 *)

\* int(text) of a string of digits
RECURSIVE ParseInt(_)
ParseInt(text) ==
    IF text = <<>> THEN 0
    ELSE 10 * ParseInt(SubSeq(text, 1, Len(text) - 1))
         + (CHOOSE d \in 0..9 : DigitChars[d + 1] = text[Len(text)])

\* <<a, b>> of the Range header value "items=a-b"
ParseRange(value) ==
    LET bounds == SplitOn(SubSeq(value, Len(s_items) + 1, Len(value)), "-")
    IN  <<ParseInt(bounds[1]), ParseInt(bounds[2])>>

\* The items a..b (counted from 0) of the list
ServePage(items, range) ==
    SubSeq(items, range[1] + 1, IF range[2] + 1 < Len(items) THEN range[2] + 1
                                ELSE Len(items))

-----------------------------------------------------------------------------
(* The calls made on a QRadarSession                                       *)

MaxItems == 3
MaxPageSize == 2

CtorArgs ==
    [ sec_token : {PyNone, PyStr(""), PyStr("test-sec-token-1234")},
      username  : {PyNone, PyStr(""), PyStr("admin")},
      password  : {PyNone, PyStr(""), PyStr("s3cr3t")} ]

ParamDicts ==
    { EmptyDict,
      [a |-> PyStr("1"), b |-> PyNone],
      [filter |-> PyStr("old"), fields |-> PyNone, sort |-> PyStr("-id")] }

HeaderDicts ==
    { EmptyDict,
      [Range |-> <<"i","t","e","m","s","=","9","-","9">>],
      [range |-> <<"0","-","1">>, Accept |-> <<"t","e","x","t","/","c","s","v">>] }

RequestArgs ==
    [ method       : {m_get, <<"P","o","s","t">>},
      path         : {<<"/","s","i","e","m","/","o","f","f","e","n","s","e","s">>},
      params       : ParamDicts,
      headers      : HeaderDicts,
      range_header : {<<>>, << <<"0","-","4","9">> >>},
      fields       : {PyNone, PyStr("id,status")},
      filter_expr  : {PyNone, PyStr("status=OPEN")},
      sort         : {PyNone, PyStr("+id")} ]

Responses ==
    [ status_code : {200, 204, 400, 401, 404, 429, 500, 503},
      body        : BodyKinds ]

-----------------------------------------------------------------------------
(* Run 5: a QRadarSession is constructed and used                          *)

InitSession ==
    /\ pc = "new"
    /\ ctor \in CtorArgs
    /\ session = <<>>
    /\ call = <<>>
    /\ outgoing = <<>>
    /\ response = <<>>
    /\ raised = NoError
    /\ pg = <<>>
    /\ IdleSchema /\ IdleParse /\ IdleBuild /\ IdleSdk /\ IdleScan

\* __init__ raises before requests.Session() is called
ConstructFails ==
    /\ pc = "new"
    /\ NeedsAuthError(ctor)
    /\ raised' = [class |-> "QRadarAuthError"]
    /\ pc' = "failed"
    /\ UNCHANGED <<ctor, session, call, outgoing, response, pg>>
    /\ UNCHANGED <<schemaVars, parseVars, buildVars, sdkVars, scanVars>>

\* __init__ returns
Construct ==
    /\ pc = "new"
    /\ ~NeedsAuthError(ctor)
    /\ session' = NewSession(ctor)
    /\ pc' = "ready"
    /\ UNCHANGED <<ctor, call, outgoing, response, raised, pg>>
    /\ UNCHANGED <<schemaVars, parseVars, buildVars, sdkVars, scanVars>>

\* request, up to self._session.request(...): the request is sent
RequestSend ==
    /\ pc = "ready"
    /\ \E args \in RequestArgs :
          /\ call' = args
          /\ outgoing' = Outgoing(args)
    /\ response' = <<>>
    /\ raised' = NoError
    /\ pc' = "sent"
    /\ UNCHANGED <<ctor, session, pg>>
    /\ UNCHANGED <<schemaVars, parseVars, buildVars, sdkVars, scanVars>>

\* request, from the response on: _raise_for_status and return
RequestReturn ==
    /\ pc = "sent"
    /\ \E resp \in Responses :
          /\ response' = resp
          /\ raised' = RaiseForStatus(resp)
    /\ call' = <<>>
    /\ outgoing' = <<>>
    /\ pc' = "ready"
    /\ UNCHANGED <<ctor, session, pg>>
    /\ UNCHANGED <<schemaVars, parseVars, buildVars, sdkVars, scanVars>>

\* paginate is called: start = 0, fetched = 0.  The endpoint serves the
\* items of a fixed list
PaginateStart ==
    /\ pc = "ready"
    /\ \E page_size \in 1..MaxPageSize,
          max_items \in {PyNone} \cup {PyInt(m) : m \in 0..(MaxItems + 1)},
          n \in 0..MaxItems :
          pg' = [ page_size |-> page_size,
                  max_items |-> max_items,
                  server    |-> [i \in 1..n |-> i],
                  start     |-> 0,
                  fetched   |-> 0,
                  requested |-> <<>>,
                  yielded   |-> <<>> ]
    /\ response' = <<>>
    /\ raised' = NoError
    /\ pc' = "paging"
    /\ UNCHANGED <<ctor, session, call, outgoing>>
    /\ UNCHANGED <<schemaVars, parseVars, buildVars, sdkVars, scanVars>>

\* The Range value paginate passes: f"{start}-{end}"
PageRange(start, page_size) ==
    IntToStr(start) \o <<"-">> \o IntToStr(start + page_size - 1)

\* The arguments of self.get(path, range_header=...)
PageArgs(start, page_size) ==
    [ method       |-> <<"G","E","T">>,
      path         |-> <<"/","s","i","e","m","/","o","f","f","e","n","s","e","s">>,
      params       |-> EmptyDict,
      headers      |-> EmptyDict,
      range_header |-> <<PageRange(start, page_size)>>,
      fields       |-> PyNone,
      filter_expr  |-> PyNone,
      sort         |-> PyNone ]

\* A plausible slip: the next page starts at the end of the last one
NextStartOverlaps(start, page_size) == start + page_size - 1

\* A plausible slip: the loop asks for the same page again
NextStartStays(start, page_size) == start

\* start += page_size
NextStart(start, page_size) == start + page_size

\* max_items is not None and fetched >= max_items
LimitReached(max_items, fetched) ==
    max_items # PyNone /\ fetched >= max_items.v

\* What the server reads in the Range header of the request paginate sends
\* for a page: self.get(path, range_header=...) goes through request, the
\* server parses "items=a-b".  Tabulated over the values start can take.
RangeAsked ==
    [start \in 0..(MaxItems + MaxPageSize), page_size \in 1..MaxPageSize |->
        ParseRange(Outgoing(PageArgs(start, page_size)).headers.v["Range"])]

\* One turn of the while loop of paginate: the page is requested and, if
\* it is not empty, yielded; the generator ends or goes on to the next page
PaginateNext ==
    /\ pc = "paging"
    /\ LET range == RangeAsked[pg.start, pg.page_size]
           page  == ServePage(pg.server, range)
           asked == [pg EXCEPT !.requested = Append(@, range)]
       IN  IF page = <<>>
           THEN /\ pg' = asked
                /\ pc' = "paged"
           ELSE LET got == [asked EXCEPT !.yielded = Append(@, page),
                                         !.fetched = @ + Len(page)]
                IN  IF LimitReached(got.max_items, got.fetched)
                       \/ Len(page) < got.page_size
                    THEN /\ pg' = got
                         /\ pc' = "paged"
                    ELSE /\ pg' = [got EXCEPT !.start =
                                       NextStart(got.start, got.page_size)]
                         /\ pc' = "paging"
    /\ UNCHANGED <<ctor, session, call, outgoing, response, raised>>
    /\ UNCHANGED <<schemaVars, parseVars, buildVars, sdkVars, scanVars>>

\* The generator is dropped by its consumer
PaginateEnd ==
    /\ pc = "paged"
    /\ pg' = <<>>
    /\ pc' = "ready"
    /\ UNCHANGED <<ctor, session, call, outgoing, response, raised>>
    /\ UNCHANGED <<schemaVars, parseVars, buildVars, sdkVars, scanVars>>

\* close(): self._session.close()
Close ==
    /\ pc = "ready"
    /\ session' = [session EXCEPT !.closed = TRUE]
    /\ pc' = "closed"
    /\ UNCHANGED <<ctor, call, outgoing, response, raised, pg>>
    /\ UNCHANGED <<schemaVars, parseVars, buildVars, sdkVars, scanVars>>

NextSession ==
    \/ ConstructFails \/ Construct
    \/ RequestSend \/ RequestReturn
    \/ PaginateStart \/ PaginateNext \/ PaginateEnd
    \/ Close

SpecSession == InitSession /\ [][NextSession]_vars

-----------------------------------------------------------------------------
(* Properties of QRadarSession                                             *)

\* An argument that is absent or the empty string
IsMissing(x) == x \in {PyNone, PyStr("")}

\* C14: the constructor raises QRadarAuthError exactly when sec_token is
\* missing and username or password is missing; then no HTTP session
\* exists and no request can be sent.
C14_AuthErrorIffNoCredentials ==
    /\ pc # "new" =>
          (pc = "failed" <=>
              (IsMissing(ctor.sec_token)
               /\ (IsMissing(ctor.username) \/ IsMissing(ctor.password))))
    /\ pc = "failed" =>
          /\ raised = [class |-> "QRadarAuthError"]
          /\ session = <<>>
          /\ outgoing = <<>>
          /\ ~ENABLED RequestSend
          /\ ~ENABLED PaginateStart
    /\ pc \notin {"new", "failed"} => session # <<>>

\* An empty token with a user name but no password
C14_Witness ==
    /\ pc = "failed"
    /\ ctor = [sec_token |-> PyStr(""), username |-> PyStr("admin"),
               password |-> PyNone]
    /\ raised.class = "QRadarAuthError"
    /\ session = <<>>

\* C15: a constructed session has one authentication mode: with a token,
\* the SEC header is the token and no basic credentials are set, also when
\* user name and password are given; without, the basic credentials are
\* (username, password) and there is no SEC header.  Requests, pagination
\* and close leave the mode as it is.
C15_OneAuthMode ==
    session # <<>> =>
        IF ~IsMissing(ctor.sec_token)
        THEN /\ "SEC" \in DOMAIN session.headers
             /\ session.headers["SEC"] = ctor.sec_token.v
             /\ session.auth = PyNone
        ELSE /\ "SEC" \notin DOMAIN session.headers
             /\ session.auth = [username |-> ctor.username,
                                password |-> ctor.password]

\* Token, user name and password all given; a request answered and the
\* session closed
C15_Witness ==
    /\ pc = "closed"
    /\ response # <<>>
    /\ ctor = [sec_token |-> PyStr("test-sec-token-1234"),
               username |-> PyStr("admin"), password |-> PyStr("s3cr3t")]
    /\ session.headers["SEC"] = "test-sec-token-1234"
    /\ session.auth = PyNone

\* The exception class the status of a response calls for
ClassForStatus(status) ==
    CASE status = 401 -> "QRadarAuthError"
      [] status = 404 -> "QRadarNotFoundError"
      [] status = 429 -> "QRadarRateLimitError"
      [] OTHER        -> "QRadarAPIError"

\* C16: for every non-success response request raises the exception its
\* status calls for (401 QRadarAuthError, which is no QRadarAPIError; 404
\* QRadarNotFoundError; 429 QRadarRateLimitError; other 4xx/5xx
\* QRadarAPIError), the API errors carrying the status code; a success
\* response raises nothing.
C16_ExceptionByStatus ==
    (pc = "ready" /\ response # <<>>) =>
        IF response.status_code >= 400
        THEN /\ raised.class = ClassForStatus(response.status_code)
             /\ IsSubclass(raised.class, "QRadarError")
             /\ response.status_code = 401 =>
                   ~IsSubclass(raised.class, "QRadarAPIError")
             /\ response.status_code # 401 =>
                   /\ IsSubclass(raised.class, "QRadarAPIError")
                   /\ raised.status_code = response.status_code
        ELSE raised = NoError

\* C17: with range_header = r the outgoing Range header is "items=" + r,
\* also when the caller's headers have a Range entry; with range_header
\* None the outgoing headers are the caller's, no Range header added.
C17_RangeHeader ==
    pc = "sent" =>
        IF call.range_header # <<>>
        THEN /\ outgoing.headers # PyNone
             /\ outgoing.headers.v["Range"] =
                   <<"i","t","e","m","s","=">> \o call.range_header[1]
             /\ \A h \in DOMAIN call.headers \ {"Range"} :
                   outgoing.headers.v[h] = call.headers[h]
        ELSE IF DOMAIN call.headers = {}
        THEN outgoing.headers = PyNone
        ELSE outgoing.headers = PyDict(call.headers)

\* The caller's own Range entry is replaced
C17_Witness ==
    /\ pc = "sent"
    /\ "Range" \in DOMAIN call.headers
    /\ call.headers["Range"] = <<"i","t","e","m","s","=","9","-","9">>
    /\ call.range_header = << <<"0","-","4","9">> >>
    /\ outgoing.headers.v["Range"] = <<"i","t","e","m","s","=","0","-","4","9">>

\* The query parameters a call asks for: fields, filter_expr (as filter)
\* and sort when not None, over the caller's params without None values
ExpectedQuery(args) ==
    LET named == [fields |-> args.fields, filter |-> args.filter_expr,
                  sort |-> args.sort]
        given == {k \in DOMAIN named : named[k] # PyNone}
        kept  == {k \in DOMAIN args.params : args.params[k] # PyNone}
    IN  [k \in given \cup kept |->
            IF k \in given THEN named[k] ELSE args.params[k]]

\* C18: the outgoing query parameters are the caller's params without the
\* None values, overridden by fields, filter (from filter_expr) and sort
\* where these are not None.
C18_QueryParams ==
    pc = "sent" =>
        /\ outgoing.params = IF DOMAIN ExpectedQuery(call) = {} THEN PyNone
                             ELSE PyDict(ExpectedQuery(call))
        /\ outgoing.params # PyNone =>
              /\ "filter_expr" \notin DOMAIN outgoing.params.v
              /\ call.filter_expr # PyNone =>
                    outgoing.params.v["filter"] = call.filter_expr

\* The caller's filter is overridden, its None-valued fields dropped and
\* its sort kept
C18_Witness ==
    /\ pc = "sent"
    /\ call.params = [filter |-> PyStr("old"), fields |-> PyNone,
                      sort |-> PyStr("-id")]
    /\ call.filter_expr = PyStr("status=OPEN")
    /\ call.fields = PyNone
    /\ call.sort = PyNone
    /\ outgoing.params =
          PyDict([filter |-> PyStr("status=OPEN"), sort |-> PyStr("-id")])

\* The pages in one list
RECURSIVE Flatten(_)
Flatten(pages) ==
    IF pages = <<>> THEN <<>> ELSE Head(pages) \o Flatten(Tail(pages))

\* C19: without max_items, against a server of a fixed list, paginate
\* requests the ranges 0..page_size-1, page_size..2*page_size-1, ... in
\* order, and the pages it yields, put together, are the whole list, each
\* item once and in order.
C19_PagesCoverList ==
    (pc \in {"paging", "paged"} /\ pg.max_items = PyNone) =>
        /\ \A i \in DOMAIN pg.requested :
              pg.requested[i] = <<(i - 1) * pg.page_size, i * pg.page_size - 1>>
        /\ Flatten(pg.yielded) = SubSeq(pg.server, 1, pg.fetched)
        /\ \A i \in DOMAIN pg.yielded : pg.yielded[i] # <<>>
        /\ pc = "paged" => Flatten(pg.yielded) = pg.server

\* Three items in pages of two
C19_Witness ==
    /\ pc = "paged"
    /\ pg.max_items = PyNone
    /\ pg.page_size = 2
    /\ pg.server = <<1, 2, 3>>
    /\ pg.requested = << <<0, 1>>, <<2, 3>> >>
    /\ pg.yielded = << <<1, 2>>, <<3>> >>

\* C20: with max_items = m the pages yielded never hold more than m items
\* in total, and no page is requested once m items have been yielded.
C20_NeverMoreThanMaxItems ==
    (pc \in {"paging", "paged"} /\ pg.max_items # PyNone) =>
        /\ Len(Flatten(pg.yielded)) <= pg.max_items.v
        /\ (pc = "paging" /\ pg.requested # <<>>) =>
              Len(Flatten(pg.yielded)) < pg.max_items.v

-----------------------------------------------------------------------------
(* The two HTML scanners: _TableParser and _TextExtractor                  *)
(* HTMLParser.feed calls handle_starttag, handle_endtag and handle_data;   *)
(* an event is [kind, tag] or [kind, data].  Tag names are atoms, data is  *)
(* text.  None of _skip_tag is the empty tag name: the handlers only test  *)
(* its truth value.  None of _current_table is the empty sequence.         *)

NoTag == ""

SkipTags == {"script", "style"}

CellTags == {"td", "th"}

StartTag(tag) == [kind |-> "start", tag |-> tag]

EndTag(tag) == [kind |-> "end", tag |-> tag]

Data(data) == [kind |-> "data", data |-> data]

\* _TableParser.__init__
NewTableParser ==
    [tables |-> <<>>, current_table |-> <<>>, current_row |-> <<>>,
     cell_buf |-> <<>>, in_cell |-> FALSE, in_caption |-> FALSE,
     caption_buf |-> <<>>, skip_tag |-> NoTag, skip_depth |-> 0]

\* any(c.strip() for c in self._current_row)
AnyNonBlank(row) == \E i \in 1..Len(row) : Strip(row[i]) # <<>>

\* _TableParser.handle_starttag below the two skip tests
TableOpen(p, tag) ==
    IF tag = "table"
    THEN [p EXCEPT !.current_table = << [caption |-> <<>>, rows |-> <<>>] >>]
    ELSE IF tag = "caption"
    THEN [p EXCEPT !.in_caption = TRUE, !.caption_buf = <<>>]
    ELSE IF tag \in CellTags
    THEN [p EXCEPT !.in_cell = TRUE, !.cell_buf = <<>>]
    ELSE IF tag = "tr"
    THEN [p EXCEPT !.current_row = <<>>]
    ELSE p

\* A plausible slip: a tag inside the skipped element does not deepen the skip
SkipStartFlat(p) == p

\* if self._skip_tag: self._skip_depth += 1; return
SkipStart(p) == [p EXCEPT !.skip_depth = @ + 1]

\* if self._skip_tag: self._skip_depth -= 1; if it is 0, self._skip_tag = None
SkipEnd(p) ==
    IF p.skip_depth - 1 = 0
    THEN [p EXCEPT !.skip_depth = 0, !.skip_tag = NoTag]
    ELSE [p EXCEPT !.skip_depth = @ - 1]

\* if tag in ('script', 'style'): ...
SkipEnter(p, tag) == [p EXCEPT !.skip_tag = tag, !.skip_depth = 1]

TableHandleStarttag(p, tag) ==
    IF p.skip_tag # NoTag THEN SkipStart(p)
    ELSE IF tag \in SkipTags THEN SkipEnter(p, tag)
    ELSE TableOpen(p, tag)

\* A plausible slip: </tr> appends the row whatever its cells hold
EndRowKeepsBlank(p) ==
    [p EXCEPT !.current_table[1].rows = Append(@, p.current_row),
              !.current_row = <<>>]

\* the </tr> branch, the table being open
EndRow(p) ==
    IF AnyNonBlank(p.current_row)
    THEN [p EXCEPT !.current_table[1].rows = Append(@, p.current_row),
                   !.current_row = <<>>]
    ELSE [p EXCEPT !.current_row = <<>>]

\* _TableParser.handle_endtag below the skip test
TableClose(p, tag) ==
    IF tag = "table" /\ p.current_table # <<>>
    THEN [p EXCEPT !.tables = Append(@, p.current_table[1]),
                   !.current_table = <<>>]
    ELSE IF tag = "caption"
    THEN IF p.current_table # <<>>
         THEN [p EXCEPT !.in_caption = FALSE,
                        !.current_table[1].caption = Strip(p.caption_buf)]
         ELSE [p EXCEPT !.in_caption = FALSE]
    ELSE IF tag \in CellTags
    THEN IF p.current_table # <<>>
         THEN [p EXCEPT !.in_cell = FALSE,
                        !.current_row = Append(@, Strip(p.cell_buf))]
         ELSE [p EXCEPT !.in_cell = FALSE]
    ELSE IF tag = "tr" /\ p.current_table # <<>>
    THEN EndRow(p)
    ELSE p

TableHandleEndtag(p, tag) ==
    IF p.skip_tag # NoTag THEN SkipEnd(p) ELSE TableClose(p, tag)

\* _TableParser.handle_data below the skip test
TableText(p, data) ==
    IF p.in_caption THEN [p EXCEPT !.caption_buf = @ \o data]
    ELSE IF p.in_cell THEN [p EXCEPT !.cell_buf = @ \o data]
    ELSE p

TableHandleData(p, data) ==
    IF p.skip_tag # NoTag THEN p ELSE TableText(p, data)

\* _TextExtractor.__init__
NewTextExtractor ==
    [buf |-> <<>>, in_pre |-> FALSE, pre_buf |-> <<>>, pre_blocks |-> <<>>,
     skip_tag |-> NoTag, skip_depth |-> 0]

PreMarker == <<"\n", "_", "_", "P", "R", "E", "_", "_", "\n">>

TextOpen(x, tag) ==
    IF tag = "pre" THEN [x EXCEPT !.in_pre = TRUE, !.pre_buf = <<>>] ELSE x

TextHandleStarttag(x, tag) ==
    IF x.skip_tag # NoTag THEN SkipStart(x)
    ELSE IF tag \in SkipTags THEN SkipEnter(x, tag)
    ELSE TextOpen(x, tag)

TextClose(x, tag) ==
    IF tag = "pre"
    THEN [x EXCEPT !.in_pre = FALSE,
                   !.pre_blocks = Append(@, x.pre_buf),
                   !.buf = Append(@, PreMarker)]
    ELSE x

TextHandleEndtag(x, tag) ==
    IF x.skip_tag # NoTag THEN SkipEnd(x) ELSE TextClose(x, tag)

TextText(x, data) ==
    IF x.in_pre THEN [x EXCEPT !.pre_buf = @ \o data]
    ELSE [x EXCEPT !.buf = Append(@, data)]

TextHandleData(x, data) ==
    IF x.skip_tag # NoTag THEN x ELSE TextText(x, data)

\* the text property: ''.join(self._buf)
TextOf(x) == Join(x.buf, <<>>)

-----------------------------------------------------------------------------
(* Run 6: HTMLParser.feed delivers events to one of the two scanners       *)

MaxEvents == 7

ScanTags == {"script", "style", "table", "caption", "tr", "td", "pre", "b"}

ScanData == { <<"x">>, <<" ">> }

\* What the document has open, counted from the events alone: the number
\* of elements open inside a script or style element, that element included.
NestAfter(nest, ev) ==
    IF nest > 0
    THEN IF ev.kind = "start" THEN nest + 1
         ELSE IF ev.kind = "end" THEN nest - 1
         ELSE nest
    ELSE IF ev.kind = "start" /\ ev.tag \in SkipTags THEN 1 ELSE 0

\* the cell the step from p to q has appended to the current row, if any
Collected(p, q) ==
    IF Len(q.current_row) = Len(p.current_row) + 1
    THEN <<q.current_row[Len(q.current_row)]>>
    ELSE <<>>

\* n: events delivered; ev: the last one; nest: see NestAfter; regions: the
\* skipped elements closed; inside: the events met inside them; cells: the
\* cells collected since the last <tr> met outside a skipped element
Fed(ev, collected) ==
    [n |-> fed.n + 1, ev |-> ev, nest |-> NestAfter(fed.nest, ev),
     regions |-> IF fed.nest > 0 /\ NestAfter(fed.nest, ev) = 0
                 THEN fed.regions + 1 ELSE fed.regions,
     inside |-> IF fed.nest > 0 /\ NestAfter(fed.nest, ev) > 0
                THEN fed.inside + 1 ELSE fed.inside,
     cells |-> IF fed.nest = 0 /\ ev = [kind |-> "start", tag |-> "tr"]
               THEN <<>> ELSE fed.cells \o collected]

InitScan ==
    /\ pc \in {"tables", "text"}
    /\ tp = NewTableParser
    /\ tx = NewTextExtractor
    /\ fed = [n |-> 0, ev |-> Data(<<>>),
              nest |-> 0, regions |-> 0, inside |-> 0,
              cells |-> <<>>]
    /\ IdleSchema /\ IdleParse /\ IdleBuild /\ IdleSdk /\ IdleHttp

TableStart ==
    /\ pc = "tables" /\ fed.n < MaxEvents
    /\ \E tag \in ScanTags :
          /\ tp' = TableHandleStarttag(tp, tag)
          /\ fed' = Fed(StartTag(tag), Collected(tp, tp'))
    /\ UNCHANGED <<pc, tx, schemaVars, parseVars, buildVars, sdkVars, httpVars>>

TableEnd ==
    /\ pc = "tables" /\ fed.n < MaxEvents
    /\ \E tag \in ScanTags :
          /\ tp' = TableHandleEndtag(tp, tag)
          /\ fed' = Fed(EndTag(tag), Collected(tp, tp'))
    /\ UNCHANGED <<pc, tx, schemaVars, parseVars, buildVars, sdkVars, httpVars>>

TableData ==
    /\ pc = "tables" /\ fed.n < MaxEvents
    /\ \E data \in ScanData :
          /\ tp' = TableHandleData(tp, data)
          /\ fed' = Fed(Data(data), Collected(tp, tp'))
    /\ UNCHANGED <<pc, tx, schemaVars, parseVars, buildVars, sdkVars, httpVars>>

TextStart ==
    /\ pc = "text" /\ fed.n < MaxEvents
    /\ \E tag \in ScanTags :
          /\ tx' = TextHandleStarttag(tx, tag)
          /\ fed' = Fed(StartTag(tag), <<>>)
    /\ UNCHANGED <<pc, tp, schemaVars, parseVars, buildVars, sdkVars, httpVars>>

TextEnd ==
    /\ pc = "text" /\ fed.n < MaxEvents
    /\ \E tag \in ScanTags :
          /\ tx' = TextHandleEndtag(tx, tag)
          /\ fed' = Fed(EndTag(tag), <<>>)
    /\ UNCHANGED <<pc, tp, schemaVars, parseVars, buildVars, sdkVars, httpVars>>

TextData ==
    /\ pc = "text" /\ fed.n < MaxEvents
    /\ \E data \in ScanData :
          /\ tx' = TextHandleData(tx, data)
          /\ fed' = Fed(Data(data), <<>>)
    /\ UNCHANGED <<pc, tp, schemaVars, parseVars, buildVars, sdkVars, httpVars>>

NextScan ==
    TableStart \/ TableEnd \/ TableData \/ TextStart \/ TextEnd \/ TextData

SpecScan == InitScan /\ [][NextScan]_vars

-----------------------------------------------------------------------------
(* Claims on the scanners                                                  *)

\* what the table scanner has collected: everything but the skip state
TableCaptured(p) ==
    <<p.tables, p.current_table, p.current_row, p.cell_buf, p.in_cell,
      p.in_caption, p.caption_buf>>

\* what the text scanner has collected
TextCaptured(x) == <<x.buf, x.in_pre, x.pre_buf, x.pre_blocks>>

\* the event as a scanner with no skipping at all would take it
TablePlain(p, ev) ==
    IF ev.kind = "start" THEN TableOpen(p, ev.tag)
    ELSE IF ev.kind = "end" THEN TableClose(p, ev.tag)
    ELSE TableText(p, ev.data)

TextPlain(x, ev) ==
    IF ev.kind = "start" THEN TextOpen(x, ev.tag)
    ELSE IF ev.kind = "end" THEN TextClose(x, ev.tag)
    ELSE TextText(x, ev.data)

\* the event opens, lies in or closes a script/style element
InSkippedRegion(nest, ev) ==
    nest > 0 \/ (ev.kind = "start" /\ ev.tag \in SkipTags)

\* C21: in both scanners the skipped region of a <script> or <style>
\* element runs from its start tag to the end tag that brings the count of
\* open tags back to zero: an event of the region leaves the tables, the
\* current row, the caption, cell and pre buffers and the text as they
\* were, and every event outside a region is taken as a scanner without
\* skipping would take it.
C21_SkipRegionExact ==
    [][ /\ pc = "tables" =>
            TableCaptured(tp') =
                IF InSkippedRegion(fed.nest, fed'.ev)
                THEN TableCaptured(tp)
                ELSE TableCaptured(TablePlain(tp, fed'.ev))
        /\ pc = "text" =>
            TextCaptured(tx') =
                IF InSkippedRegion(fed.nest, fed'.ev)
                THEN TextCaptured(tx)
                ELSE TextCaptured(TextPlain(tx, fed'.ev))
      ]_vars

\* a closed region with a nested tag and something collected after it,
\* a caption by the table scanner or a <pre> block by the text scanner
C21_Witness ==
    /\ fed.regions >= 1 /\ fed.inside >= 2 /\ fed.nest = 0
    /\ \/ pc = "tables" /\ tp.caption_buf # <<>>
       \/ pc = "text" /\ tx.pre_blocks # <<>> /\ tx.pre_blocks[1] # <<>>

\* the tables the scanner holds: the closed ones, then the open one
AllTables(p) == p.tables \o p.current_table

RowLists(p) == { AllTables(p)[i].rows : i \in 1..Len(AllTables(p)) }

\* the step from p to q has put a row into a table
RowAdded(p, q) == \E rows \in RowLists(q) : rows # <<>> /\ rows \notin RowLists(p)

\* C22: no table the scanner holds has a row whose cells are all blank,
\* and a step adds a row only if it is the handling of </tr> outside a
\* skipped element, with a table open and at least one non-blank cell
\* collected since the last <tr>; the row goes to that open table.
C22_NoBlankRow ==
    /\ [](pc = "tables" =>
            \A i \in 1..Len(AllTables(tp)) :
                \A r \in 1..Len(AllTables(tp)[i].rows) :
                    AnyNonBlank(AllTables(tp)[i].rows[r]))
    /\ [][ (pc = "tables" /\ RowAdded(tp, tp')) =>
              /\ fed'.ev = EndTag("tr")
              /\ fed.nest = 0
              /\ tp.current_table # <<>>
              /\ AnyNonBlank(fed.cells)
              /\ tp'.tables = tp.tables
              /\ tp'.current_table[1].rows =
                     Append(tp.current_table[1].rows, tp.current_row)
       ]_vars

\* </tr> has added a row that holds a blank cell next to a non-blank one
C22_Witness ==
    /\ pc = "tables" /\ fed.ev = EndTag("tr") /\ tp.current_table # <<>>
    /\ \E r \in 1..Len(tp.current_table[1].rows) :
          \E i \in 1..Len(tp.current_table[1].rows[r]) :
              tp.current_table[1].rows[r][i] = <<>>

-----------------------------------------------------------------------------
(* Claims on the request body and the responses of a record                *)

BodyTablesOf(page) ==
    { i \in DOMAIN page.tables :
        /\ Contains(Lower(page.tables[i].caption), s_request_body_details)
        /\ ~Contains(Lower(page.tables[i].caption), s_request_parameter_details) }

\* The body table the record is built from: the last one of the page
LastBodyTable(page) ==
    page.tables[CHOOSE i \in BodyTablesOf(page) :
                    \A j \in BodyTablesOf(page) : j <= i]

\* the rows of a table below its header row
BelowHeader(table) == SubSeq(table.rows, 2, Len(table.rows))

\* C23: when the request-body table has data rows, the content type of
\* the request body is the mime-type cell of the first data row, and it is
\* application/json when that cell is blank or no row has a mime-type cell.
C23_BodyContentType ==
    (Parsed /\ BodyTablesOf(content) # {}
            /\ BelowHeader(LastBodyTable(content)) # <<>>) =>
        LET rows  == BelowHeader(LastBodyTable(content))
            first == rows[1]
            types == DOMAIN record.request_body.content
        IN  /\ (Len(first) > 2 /\ Strip(first[3]) # <<>>) =>
                   types = {Strip(first[3])}
            /\ (Len(first) > 2 /\ Strip(first[3]) = <<>>) =>
                   types = {s_application_json}
            /\ (\A i \in DOMAIN rows : Len(rows[i]) <= 2) =>
                   types = {s_application_json}

RespTableRows(page) ==
    IF RespTablesOf(page) = {} THEN <<>>
    ELSE BelowHeader(page.tables[CHOOSE i \in RespTablesOf(page) :
                                     \A j \in RespTablesOf(page) : j <= i])

\* the rows that decide a response: numeric first cell, and no later row
\* of the same code
DecidingRows(rows) ==
    { i \in DOMAIN rows :
        /\ rows[i] # <<>>
        /\ IsDigitStr(Strip(rows[i][1]))
        /\ \A j \in DOMAIN rows :
              (j > i /\ rows[j] # <<>>) => Strip(rows[j][1]) # Strip(rows[i][1]) }

HasText(cells, k) == Len(cells) >= k /\ Strip(cells[k]) # <<>>

\* C24 as stated: the description of a response row with a numeric first
\* cell is the 3rd cell if it has text, otherwise the 2nd cell if it has
\* text, otherwise 'No description'.
C24_DescriptionPrefersText ==
    Parsed =>
        LET rows == RespTableRows(content)
        IN  \A i \in DecidingRows(rows) :
               record.responses[Strip(rows[i][1])].description =
                   IF HasText(rows[i], 3) THEN Strip(rows[i][3])
                   ELSE IF HasText(rows[i], 2) THEN Strip(rows[i][2])
                   ELSE s_NoDescription

\* C24, amended: the description is taken from the 3rd cell whenever the
\* row has one, from the 2nd cell only when the row has no 3rd cell; the
\* text of that one cell, or 'No description' when it is blank or when the
\* row has the code alone.
C24_DescriptionByCellCount ==
    Parsed =>
        LET rows == RespTableRows(content)
        IN  \A i \in DecidingRows(rows) :
               record.responses[Strip(rows[i][1])].description =
                   IF Len(rows[i]) >= 3
                   THEN (IF HasText(rows[i], 3) THEN Strip(rows[i][3])
                         ELSE s_NoDescription)
                   ELSE IF HasText(rows[i], 2) THEN Strip(rows[i][2])
                   ELSE s_NoDescription

\* a row with a blank 3rd cell and text in the 2nd has decided a response
C24_Witness ==
    /\ Parsed
    /\ \E i \in DecidingRows(RespTableRows(content)) :
          LET cells == RespTableRows(content)[i]
          IN  /\ Len(cells) >= 3 /\ ~HasText(cells, 3) /\ HasText(cells, 2)
              /\ record.responses[Strip(cells[1])].description = s_NoDescription

\* the codes of the record whose response carries a content schema
WithSchema(rec) ==
    { code \in DOMAIN rec.responses : "content" \in DOMAIN rec.responses[code] }

\* C25: in every operation record at most one response carries a content
\* schema: the 201 response when the method is POST and 201 is present,
\* otherwise the 200 response when 200 is present, otherwise none; a
\* response of any other code never carries one.
C25_OneSchemaOn200Or201 ==
    Parsed =>
        /\ Cardinality(WithSchema(record)) <= 1
        /\ WithSchema(record) =
              IF record.method = s_POST /\ s_201 \in DOMAIN record.responses
              THEN {s_201}
              ELSE IF s_200 \in DOMAIN record.responses THEN {s_200}
              ELSE {}

\* a record with 200 and 201 that is not a POST: only 200 carries a schema
C25_Witness ==
    /\ Parsed
    /\ record.method # s_POST
    /\ {s_200, s_201} \subseteq DOMAIN record.responses
    /\ WithSchema(record) = {s_200}

-----------------------------------------------------------------------------
(* Claims on the generated methods                                         *)

\* the operations the module of a tag was generated from
OperationsOf(tag) ==
    ops_by_tag[CHOOSE i \in DOMAIN ops_by_tag : ops_by_tag[i].tag = tag].operations

ParamsIn(op, locations) ==
    SelectSeq2(op.parameters, LAMBDA p : p.in \in locations)

\* C26: the signature of a generated method is self, then one positional
\* parameter per path parameter in table order, then body if and only if
\* the operation has a request body, then one optional keyword per query
\* or header parameter in table order (range spelled range_header), then
\* **kwargs, and nothing else.
C26_SignatureOrder ==
    \A k \in DOMAIN modules :
        \A i \in DOMAIN modules[k].methods :
            LET op   == OperationsOf(modules[k].tag)[i]
                sig  == modules[k].methods[i].signature
                pos  == ParamsIn(op, {s_path})
                opt  == ParamsIn(op, {s_query, s_header})
                body == IF op.request_body # PyNone THEN 1 ELSE 0
            IN  /\ Len(sig) = 1 + Len(pos) + body + Len(opt) + 1
                /\ sig[1] = Arg(s_self, "positional")
                /\ \A j \in DOMAIN pos :
                      sig[1 + j] = Arg(ToSnake(pos[j].name), "positional")
                /\ body = 1 => sig[2 + Len(pos)] = Arg(s_body, "keyword")
                /\ \A j \in DOMAIN opt :
                      sig[1 + Len(pos) + body + j] =
                          Arg(IF ToSnake(opt[j].name) = s_range
                              THEN s_range_header ELSE ToSnake(opt[j].name),
                              "keyword")
                /\ sig[Len(sig)] = Arg(s_kwargs, "catch_all")

\* a method with a body whose parameters q, userId, Range, x, sort come
\* out as self, user_id, x, body, q, range_header, sort, **kwargs
C26_Witness ==
    /\ pc = "done"
    /\ \E k \in DOMAIN modules :
          \E i \in DOMAIN modules[k].methods :
              modules[k].methods[i].signature =
                  << Arg(s_self, "positional"),
                     Arg(<<"u","s","e","r","_","i","d">>, "positional"),
                     Arg(<<"x">>, "positional"),
                     Arg(s_body, "keyword"),
                     Arg(<<"q">>, "keyword"),
                     Arg(s_range_header, "keyword"),
                     Arg(s_sort, "keyword"),
                     Arg(s_kwargs, "catch_all") >>

\* the name _path_to_method_name gives the i-th operation of a tag
Derived(tag, i) ==
    PathToMethodName(OperationsOf(tag)[i].method, OperationsOf(tag)[i].path)

\* the operations up to the i-th that have the derived name of the i-th
SameNameUpTo(tag, i) ==
    { j \in 1..i : Derived(tag, j) = Derived(tag, i) }

Suffixed(b, n) == b \o <<"_">> \o IntToStr(n)

\* C27 as stated: within one tag, the k-th operation (k >= 2) with derived
\* name b is emitted as b_k.
C27_KthCollisionIsBk ==
    \A m \in DOMAIN modules :
        \A i \in DOMAIN modules[m].methods :
            LET k == Cardinality(SameNameUpTo(modules[m].tag, i))
            IN  k >= 2 =>
                   modules[m].methods[i].name =
                       Suffixed(Derived(modules[m].tag, i), k)

\* C27, amended: an operation keeps its derived name b when no earlier
\* method of the class has it; otherwise it is emitted as b_j for the
\* least j >= 2 such that no earlier method is named b_j.  The k-th
\* operation named b is b_k when every earlier method named b, b_2, ..,
\* b_k belongs to an operation whose derived name is b.
C27_LeastFreeSuffix ==
    \A m \in DOMAIN modules :
        \A i \in DOMAIN modules[m].methods :
            LET tag     == modules[m].tag
                b       == Derived(tag, i)
                name    == modules[m].methods[i].name
                earlier == { modules[m].methods[j].name : j \in 1..(i - 1) }
                k       == Cardinality(SameNameUpTo(tag, i))
            IN  /\ b \notin earlier => name = b
                /\ b \in earlier =>
                      \E j \in 2..(i + 1) :
                          /\ name = Suffixed(b, j)
                          /\ name \notin earlier
                          /\ \A n \in 2..(j - 1) : Suffixed(b, n) \in earlier
                /\ (k >= 2 /\ \A j \in 1..(i - 1) :
                                 modules[m].methods[j].name
                                     \in ({b} \cup { Suffixed(b, n) : n \in 2..k })
                                 => Derived(tag, j) = b)
                      => name = Suffixed(b, k)

\* the second operation named get_a_b_c comes third, after one whose own
\* name is get_a_b_c_2, and is emitted as get_a_b_c_3
C27_Witness ==
    /\ pc = "done"
    /\ \E m \in DOMAIN modules :
          /\ Len(modules[m].methods) = 3
          /\ Derived(modules[m].tag, 1) = <<"g","e","t","_","a","_","b","_","c">>
          /\ Derived(modules[m].tag, 2) = <<"g","e","t","_","a","_","b","_","c","_","2">>
          /\ Derived(modules[m].tag, 3) = <<"g","e","t","_","a","_","b","_","c">>
          /\ modules[m].methods[3].name = <<"g","e","t","_","a","_","b","_","c","_","3">>

\* the names a signature declares
Declared(signature) == { signature[j].name : j \in DOMAIN signature }

\* C29: every name the body of a generated method reads (the placeholders
\* of the URL f-string, the values of the params and headers mappings, and
\* what is passed as range_header, fields, filter_expr, sort and
\* json_body) is a parameter declared in the signature of the method.
C29_BodyReadsDeclared ==
    \A m \in DOMAIN modules :
        \A i \in DOMAIN modules[m].methods :
            modules[m].methods[i].reads
                \subseteq Declared(modules[m].methods[i].signature)

\* the verb methods QRadarSession defines: get, post, put, patch, delete
SessionVerbs == {m_get, m_post, m_put, m_patch, m_delete}

\* C30: the call self._s.<method>(...) of every generated method names a
\* method that QRadarSession defines, for each of the HTTP methods the
\* generator takes from the document.
C30_CallsSessionVerb ==
    \A m \in DOMAIN modules :
        \A i \in DOMAIN modules[m].methods :
            modules[m].methods[i].calls \in SessionVerbs

-----------------------------------------------------------------------------
(* Run 5 with paginate as the only call made on the session, and with a   *)
(* consumer that keeps asking the generator for its next page (a for loop  *)
(* over paginate(...), or list(paginate(...))): a turn of the while loop   *)
(* that can be taken is taken.                                             *)

NextPaginate ==
    \/ ConstructFails \/ Construct
    \/ PaginateStart \/ PaginateNext \/ PaginateEnd

SpecPaginate == InitSession /\ [][NextPaginate]_vars /\ WF_vars(PaginateNext)

Ceil(n, d) == (n + d - 1) \div d

\* the items fetched before the i-th page was yielded
FetchedBefore(pages, i) == Len(Flatten(SubSeq(pages, 1, i - 1)))

\* the i-th page yielded gives paginate a reason to stop: it is shorter
\* than page_size, or max_items items have been fetched with it
StopsAfter(g, i) ==
    \/ Len(g.yielded[i]) < g.page_size
    \/ /\ g.max_items # PyNone
       /\ FetchedBefore(g.yielded, i + 1) >= g.max_items.v

\* C28: against a server that serves the asked ranges of a finite list of
\* N items, paginate with page_size >= 1 comes to its end; it ends at the
\* first empty page, the first page shorter than page_size or the first
\* page with which max_items items have been fetched, not before and not
\* after; and it sends at most ceil(N / page_size) + 1 requests.
C28_PaginateTerminates ==
    /\ (pc = "paging") ~> (pc = "paged")
    /\ [](pc \in {"paging", "paged"} =>
             Len(pg.requested) <= Ceil(Len(pg.server), pg.page_size) + 1)
    /\ [](pc = "paging" =>
             /\ Len(pg.requested) = Len(pg.yielded)
             /\ \A i \in DOMAIN pg.yielded :
                   pg.yielded[i] # <<>> /\ ~StopsAfter(pg, i))
    /\ [](pc = "paged" =>
             /\ \A i \in 1..(Len(pg.yielded) - 1) :
                   pg.yielded[i] # <<>> /\ ~StopsAfter(pg, i)
             /\ \/ Len(pg.requested) = Len(pg.yielded) + 1
                \/ /\ Len(pg.requested) = Len(pg.yielded)
                   /\ pg.yielded # <<>>
                   /\ StopsAfter(pg, Len(pg.yielded)))

\* two items in pages of one: the third request gets the empty page, which
\* is ceil(2 / 1) + 1 requests
C28_Witness ==
    /\ pc = "paged"
    /\ pg.page_size = 1
    /\ Len(pg.server) = 2
    /\ pg.max_items = PyNone
    /\ Len(pg.requested) = 3
    /\ Len(pg.yielded) = 2

=============================================================================
